---- MODULE Spec2Model ----
(***************************************************************************)
(* State-machine model of skills/chunk-navigation/scripts/extract-deps.py: *)
(* one invocation of main() over a chunk registry file and a project tree. *)
(* Paths are records (directory, stem, extension); the project root is the *)
(* working directory (extract-deps.py:255), so a relative path names the   *)
(* same file as the absolute path below the project root.                  *)
(*                                                                         *)
(* Spec      one run of main()                                             *)
(* SpecRerun a second run over the same registry and tree                  *)
(* SpecConc  a run while another process replaces the registry file        *)
(* SpecCat   categorize_imports on its own                                 *)
(* SpecText  extract_file_imports on the text of one source file           *)
(*                                                                         *)
(* SpecPhases  create-phases.py: generate_chunks building the registry     *)
(* SpecClean   session-history.py: clean [--keep N]                        *)
(***************************************************************************)
EXTENDS Integers, Sequences, FiniteSets, TLC

VARIABLES
    argv,             \* sys.argv[1], or None when no chunk id is given
    regFile,          \* .claude/.chunks.json: [state, data]
    disk,             \* the files of the project tree: path -> [kind, imports]
    dirs,             \* the directories of the project tree (relative paths)
    pc,               \* position of main()
    chunks_data,      \* the registry as loaded by load_chunks()
    chunk_id,
    chunk,
    fi,               \* index of the next member file in a loop over chunk["files"]
    all_imports,
    file_imports,     \* sequence of <<file, imports>> in insertion order
    internal,
    external,
    cross_chunk_deps,
    avg_per_file,     \* <<numerator, denominator>> of the average, once computed
    stdout,
    stderr,
    exit_code,        \* None while running
    uncaught,         \* the exception that ended the run, or None
    run,              \* 1 for the first invocation, 2 for a repeated one
    prev_stdout,      \* the first invocation's standard output
    source,           \* a source file given to an extractor: [suffix, units]
    extracted,        \* the identifiers the extractor returned for it
    plan_phases,      \* create-phases.py: what detect_from_plan_file finds
    phases,           \* create-phases.py: the phases generate_chunks builds from
    chunk_list,       \* create-phases.py: `chunks`, the chunks built so far
    result,           \* create-phases.py: the registry returned, or None
    keep,             \* session-history.py: <<N>> for `--keep N`, <<>> without
    history_file,     \* .claude/.session-history.json
    backup_file,      \* .claude/.session-history.json.bak
    history           \* session-history.py: what load_history returned

vars == <<argv, regFile, disk, dirs, pc, chunks_data, chunk_id, chunk, fi,
          all_imports, file_imports, internal, external, cross_chunk_deps,
          avg_per_file, stdout, stderr, exit_code, uncaught, run, prev_stdout,
          source, extracted, plan_phases, phases, chunk_list, result, keep,
          history_file, backup_file, history>>

None == "None"

\* avg_per_file before the summary computes it
NoAverage == <<>>

\* source when no extractor is called on its own
NoSource == [suffix |-> "", units |-> <<>>]

\* a file that does not exist
NoFile == [state |-> "absent", data |-> <<>>]

-----------------------------------------------------------------------------
(* Bounds of the model *)

MaxChunks == 3       \* chunks in the registry
MaxFiles == 2        \* member source files of the analysed chunk
MaxImports == 2      \* identifiers in a generic source file
MaxOverflow == 1     \* external modules beyond the display limit
MaxCatLen == 3       \* length of categorize_imports' input when checked alone
MaxUnits == 3        \* statements in a source file given to an extractor

(* Policy constants of the report *)

TopExternal == 10    \* extract-deps.py:282
TopPerFile == 5      \* extract-deps.py:322

-----------------------------------------------------------------------------
(* Paths *)

\* os.getcwd(): the directory the tool is run from
Cwd == "/project"

\* a path written relative to the working directory
RelPath(dir, stem, ext) == [root |-> "", dir |-> dir, stem |-> stem, ext |-> ext]

\* Path(project_root) / rel
UnderRoot(project_root, p) == [p EXCEPT !.root = project_root]

\* the path relative to the working directory that names the same file
Resolve(p) == IF p.root = Cwd THEN [p EXCEPT !.root = ""] ELSE p

\* Path(p).suffix
Suffix(p) == p.ext

\* Path(p).name
BaseName(p) == p.stem \o p.ext

FileAt(p) ==
    IF Resolve(p) \in DOMAIN disk THEN disk[Resolve(p)]
    ELSE [kind |-> "missing", imports |-> <<>>]

\* os.path.exists / Path.exists
Exists(p) == \/ Resolve(p) \in dirs
             \/ FileAt(p).kind # "missing"

-----------------------------------------------------------------------------
(* Sequence helpers *)

Range(s) == {s[i] : i \in 1..Len(s)}

RECURSIVE Count(_, _)
Count(s, x) ==
    IF s = <<>> THEN 0
    ELSE (IF Head(s) = x THEN 1 ELSE 0) + Count(Tail(s), x)

\* the distinct elements of s in order of first occurrence (dict insertion order)
RECURSIVE FirstSeen(_)
FirstSeen(s) ==
    IF s = <<>> THEN <<>>
    ELSE LET init == FirstSeen(SubSeq(s, 1, Len(s) - 1))
             last == s[Len(s)]
         IN  IF last \in Range(init) THEN init ELSE Append(init, last)

Min(a, b) == IF a < b THEN a ELSE b

-----------------------------------------------------------------------------
(* Reading source files *)

\* the exception `with open(p) as f` and reading f in text mode end with
OpenRead(p) ==
    CASE FileAt(p).kind = "missing"     -> "FileNotFoundError"
      [] FileAt(p).kind = "denied"      -> "PermissionError"
      [] FileAt(p).kind = "isdir"       -> "IsADirectoryError"
      [] FileAt(p).kind = "undecodable" -> "UnicodeDecodeError"
      [] OTHER                          -> None

Returned(imports) == [exc |-> None, imports |-> imports]
Raised(exc) == [exc |-> exc, imports |-> <<>>]

\* the exceptions the regex extractors' `except` clauses name
CaughtByExtractor == {"FileNotFoundError"}

\* the exceptions the syntax-tree path of the Python extractor falls back on
CaughtByPythonParse == {"SyntaxError", "FileNotFoundError"}

extract_python_imports(file_path) ==
    LET parse == IF OpenRead(file_path) # None THEN OpenRead(file_path)
                 ELSE IF FileAt(file_path).kind = "badsyntax" THEN "SyntaxError"
                 ELSE None
    IN  IF parse = None THEN Returned(FileAt(file_path).imports)
        ELSE IF parse \in CaughtByPythonParse
             THEN \* fallback to regex
                  IF OpenRead(file_path) = None
                  THEN Returned(FileAt(file_path).imports)
                  ELSE IF OpenRead(file_path) \in CaughtByExtractor
                       THEN Returned(<<>>)
                       ELSE Raised(OpenRead(file_path))
             ELSE Raised(parse)

LineExtractor(file_path) ==
    IF OpenRead(file_path) = None THEN Returned(FileAt(file_path).imports)
    ELSE IF OpenRead(file_path) \in CaughtByExtractor THEN Returned(<<>>)
    ELSE Raised(OpenRead(file_path))

extract_rust_uses(file_path) == LineExtractor(file_path)

extract_go_imports(file_path) == LineExtractor(file_path)

extract_js_imports(file_path) == LineExtractor(file_path)

extract_file_imports(file_path) ==
    CASE Suffix(file_path) = ".py" -> extract_python_imports(file_path)
      [] Suffix(file_path) = ".rs" -> extract_rust_uses(file_path)
      [] Suffix(file_path) = ".go" -> extract_go_imports(file_path)
      [] Suffix(file_path) \in {".js", ".jsx", ".ts", ".tsx"} -> extract_js_imports(file_path)
      [] OTHER -> Returned(<<>>)

-----------------------------------------------------------------------------
(* Classification *)

python_stdlib == {"os", "sys", "json", "time", "datetime", "pathlib", "re", "collections",
                  "itertools", "functools", "typing", "asyncio", "subprocess", "logging"}

rust_stdlib == {"std", "alloc", "core"}

go_stdlib == {"fmt", "os", "io", "time", "strings", "errors", "context", "sync"}

js_builtins == {"fs", "path", "util", "os", "crypto", "http", "https", "stream"}

stdlib_modules == python_stdlib \cup rust_stdlib \cup go_stdlib \cup js_builtins

\* potential_paths with src/<imp>.py probed in place of the directory src/<imp>
potential_paths_src_file(imp, project_root) ==
    << UnderRoot(project_root, RelPath("", imp, "")),
       UnderRoot(project_root, RelPath("", imp, ".py")),
       UnderRoot(project_root, RelPath("src", imp, ".py")),
       UnderRoot(project_root, RelPath("lib", imp, "")) >>

potential_paths(imp, project_root) ==
    << UnderRoot(project_root, RelPath("", imp, "")),
       UnderRoot(project_root, RelPath("", imp, ".py")),
       UnderRoot(project_root, RelPath("src", imp, "")),
       UnderRoot(project_root, RelPath("lib", imp, "")) >>

\* categorize_imports with the `else` of the existence test lost: an
\* identifier found in the project is appended to both lists
RECURSIVE categorize_imports_no_else(_, _)
categorize_imports_no_else(imports, project_root) ==
    IF imports = <<>> THEN << <<>>, <<>> >>
    ELSE LET rest == categorize_imports_no_else(Tail(imports), project_root)
             imp  == Head(imports)
         IN  IF imp \in stdlib_modules THEN rest
             ELSE IF \E i \in 1..4 : Exists(potential_paths(imp, project_root)[i])
                  THEN << <<imp>> \o rest[1], <<imp>> \o rest[2] >>
                  ELSE << rest[1], <<imp>> \o rest[2] >>

\* categorize_imports with the existence test made before the allow-list test
RECURSIVE categorize_imports_probe_first(_, _)
categorize_imports_probe_first(imports, project_root) ==
    IF imports = <<>> THEN << <<>>, <<>> >>
    ELSE LET rest == categorize_imports_probe_first(Tail(imports), project_root)
             imp  == Head(imports)
         IN  IF \E i \in 1..4 : Exists(potential_paths(imp, project_root)[i])
             THEN << <<imp>> \o rest[1], rest[2] >>
             ELSE IF imp \in stdlib_modules THEN rest
                  ELSE << rest[1], <<imp>> \o rest[2] >>

\* <<internal, external>>
RECURSIVE categorize_imports(_, _)
categorize_imports(imports, project_root) ==
    IF imports = <<>> THEN << <<>>, <<>> >>
    ELSE LET rest == categorize_imports(Tail(imports), project_root)
             imp  == Head(imports)
         IN  IF imp \in stdlib_modules THEN rest
             ELSE IF \E i \in 1..4 : Exists(potential_paths(imp, project_root)[i])
                  THEN << <<imp>> \o rest[1], rest[2] >>
                  ELSE << rest[1], <<imp>> \o rest[2] >>

-----------------------------------------------------------------------------
(* The chunk registry *)

NoChunk == [id |-> None, name |-> None, status |-> None, files |-> <<>>]

\* Python truthiness of a chunk id read from JSON
Truthy(v) == v # None /\ v # ""

\* what load_chunks() ends with: the registry, sys.exit(1), or an exception
load_chunks ==
    CASE regFile.state = "absent" ->
            [how |-> "exit", data |-> None,
             err |-> << <<"Error:", "Chunks file not found">> >>]
      [] regFile.state = "malformed" ->
            [how |-> "raise", data |-> None,
             err |-> << <<"Traceback (most recent call last):">>,
                        <<"  File", "extract-deps.py", "load_chunks">>,
                        <<"json.decoder.JSONDecodeError:", "Expecting value">> >>]
      [] OTHER ->
            [how |-> "return", data |-> regFile.data, err |-> <<>>]

RECURSIVE ScanChunks(_, _, _)
ScanChunks(chunks, i, id) ==
    IF i > Len(chunks) THEN NoChunk
    ELSE IF chunks[i].id = id THEN chunks[i]
    ELSE ScanChunks(chunks, i + 1, id)

\* get_chunk falling back on the first chunk when the id is unknown
get_chunk_or_first(data, id) ==
    IF ScanChunks(data.chunks, 1, id) = NoChunk /\ data.chunks # <<>>
    THEN data.chunks[1]
    ELSE ScanChunks(data.chunks, 1, id)

get_chunk(data, id) == ScanChunks(data.chunks, 1, id)

RECURSIVE ScanOwners(_, _, _)
ScanOwners(chunks, i, file_path) ==
    IF i > Len(chunks) THEN None
    ELSE IF file_path \in Range(chunks[i].files) THEN chunks[i].id
    ELSE ScanOwners(chunks, i + 1, file_path)

\* find_chunk_for_file with the last match winning
RECURSIVE ScanOwnersBack(_, _, _)
ScanOwnersBack(chunks, i, file_path) ==
    IF i < 1 THEN None
    ELSE IF file_path \in Range(chunks[i].files) THEN chunks[i].id
    ELSE ScanOwnersBack(chunks, i - 1, file_path)

find_chunk_for_file_last(data, file_path) ==
    ScanOwnersBack(data.chunks, Len(data.chunks), file_path)

find_chunk_for_file(data, file_path) == ScanOwners(data.chunks, 1, file_path)

-----------------------------------------------------------------------------
(* Frequency tables *)

\* Counter(s): <<module, count>> in order of first occurrence
Counter(s) ==
    LET keys == FirstSeen(s)
    IN  [i \in 1..Len(keys) |-> <<keys[i], Count(s, keys[i])>>]

\* sorted(items, key=count, reverse=True): by falling count, ties in the
\* order of the items
RECURSIVE SortByCount(_)
SortByCount(items) ==
    IF items = <<>> THEN <<>>
    ELSE LET best == CHOOSE i \in 1..Len(items) :
                        /\ \A j \in 1..Len(items) : items[j][2] <= items[i][2]
                        /\ \A j \in 1..(i - 1) : items[j][2] < items[i][2]
             rest == [j \in 1..(Len(items) - 1) |-> IF j < best THEN items[j] ELSE items[j + 1]]
         IN  <<items[best]>> \o SortByCount(rest)

\* most_common with equal counts in the order of last insertion first
most_common_ties_reversed(s) ==
    SortByCount([i \in 1..Len(Counter(s)) |-> Counter(s)[Len(Counter(s)) + 1 - i]])

\* Counter(s).most_common()
most_common(s) == SortByCount(Counter(s))

\* Counter(s).most_common(n)
most_common_n(s, n) ==
    LET all == most_common(s)
    IN  SubSeq(all, 1, Min(n, Len(all)))

-----------------------------------------------------------------------------
(* Order of strings, as sorted() compares them *)

\* the third-party module names that fill the external table
ExtName(i) == "ext" \o (IF i < 10 THEN "0" ELSE "") \o ToString(i)

ExtNames(n) == [i \in 1..n |-> ExtName(i)]

\* the other identifiers that occur in the modelled source files, in string order
PlainNames == <<"models", "numpy", "os", "requests", "utils">>

ExtOrder == [i \in 1..99 |-> ExtName(i)]

NameRank(n) ==
    IF n \in Range(PlainNames)
    THEN 100 + (CHOOSE i \in 1..Len(PlainNames) : PlainNames[i] = n)
    ELSE CHOOSE i \in 1..99 : ExtOrder[i] = n

\* the member files of the modelled registries, in string order of their paths
A_py == RelPath("", "a", ".py")
B_rs == RelPath("", "b", ".rs")
Notes_md == RelPath("", "notes", ".md")
Models_rs == RelPath("src", "models", ".rs")
Utils_py == RelPath("", "utils", ".py")

PathOrder == <<A_py, B_rs, Notes_md, Models_rs, Utils_py>>

PathRank(p) == CHOOSE i \in 1..Len(PathOrder) : PathOrder[i] = p

RECURSIVE SortByRank(_, _)
SortByRank(S, rank) ==
    IF S = {} THEN <<>>
    ELSE LET least == CHOOSE x \in S : \A y \in S : rank[x] <= rank[y]
         IN  <<least>> \o SortByRank(S \ {least}, rank)

\* sorted(S) for a set S of identifiers
SortNames(S) == SortByRank(S, [x \in S |-> NameRank(x)])

\* sorted(S) for a set S of file paths
SortPaths(S) == SortByRank(S, [x \in S |-> PathRank(x)])

\* the orders in which iterating a set of strings can yield its elements
IterationOrders(S) ==
    {s \in [1..Cardinality(S) -> S] : \A i, j \in 1..Cardinality(S) : s[i] = s[j] => i = j}

\* d[k] = v on a dict kept as a sequence of <<key, value>> in insertion order
DictPut(d, k, v) ==
    IF \E i \in 1..Len(d) : d[i][1] = k
    THEN [i \in 1..Len(d) |-> IF d[i][1] = k THEN <<k, v>> ELSE d[i]]
    ELSE Append(d, <<k, v>>)

-----------------------------------------------------------------------------
(* The lines of the report *)

Rule(c) == <<"rule", c>>
Blank == <<"blank">>

HeaderLines(c) == << <<"Dependency Analysis:", c.name>>, Rule("="), Blank >>

\* the owning-chunk annotation of an internal module (extract-deps.py:270-275)
AnnotationLines(module, project_root) ==
    LET potential_file == UnderRoot(project_root, RelPath("", module, ".py"))
        dep_chunk_id == find_chunk_for_file(chunks_data, potential_file)
    IN  IF Exists(potential_file) /\ Truthy(dep_chunk_id) /\ dep_chunk_id # chunk_id
        THEN << <<"    -> Chunk:", get_chunk(chunks_data, dep_chunk_id).name>> >>
        ELSE <<>>

RECURSIVE InternalItems(_, _)
InternalItems(table, project_root) ==
    IF table = <<>> THEN <<>>
    ELSE << <<"internal", Head(table)[1], Head(table)[2]>> >>
         \o AnnotationLines(Head(table)[1], project_root)
         \o InternalItems(Tail(table), project_root)

InternalLines(project_root) ==
    IF internal = <<>> THEN <<>>
    ELSE << <<"Internal Dependencies", Len(Counter(internal))>>, Rule("-") >>
         \o InternalItems(most_common(internal), project_root)
         \o <<Blank>>

\* the external table with the overflow test written >= instead of >
ExternalLines_overflow_ge ==
    LET external_counts == Counter(external)
        top == most_common_n(external, TopExternal)
    IN  IF external = <<>> THEN <<>>
        ELSE << <<"External Dependencies", Len(external_counts)>>, Rule("-") >>
             \o [i \in 1..Len(top) |-> <<"external", top[i][1], top[i][2]>>]
             \o (IF Len(external_counts) >= TopExternal
                 THEN << <<"external more", Len(external_counts) - TopExternal>> >>
                 ELSE <<>>)
             \o <<Blank>>

ExternalLines ==
    LET external_counts == Counter(external)
        top == most_common_n(external, TopExternal)
    IN  IF external = <<>> THEN <<>>
        ELSE << <<"External Dependencies", Len(external_counts)>>, Rule("-") >>
             \o [i \in 1..Len(top) |-> <<"external", top[i][1], top[i][2]>>]
             \o (IF Len(external_counts) > TopExternal
                 THEN << <<"external more", Len(external_counts) - TopExternal>> >>
                 ELSE <<>>)
             \o <<Blank>>

RECURSIVE CrossItems(_)
CrossItems(order) ==
    IF order = <<>> THEN <<>>
    ELSE << <<"cross", get_chunk(chunks_data, Head(order)).name>>,
            <<"    ID:", Head(order)>>,
            <<"    Status:", get_chunk(chunks_data, Head(order)).status>> >>
         \o CrossItems(Tail(order))

CrossLines(order) ==
    IF order = <<>> THEN <<>>
    ELSE << <<"Cross-Chunk Dependencies", Len(order)>>, Rule("-") >>
         \o CrossItems(order) \o <<Blank>>

FileLines(file, imports) ==
    LET shown == SortNames(Range(imports))
    IN  << <<"file", BaseName(file), Len(imports)>> >>
        \o [i \in 1..Min(TopPerFile, Len(shown)) |-> <<"    -", shown[i]>>]
        \o (IF Len(shown) > TopPerFile
            THEN << <<"file more", Len(shown) - TopPerFile>> >>
            ELSE <<>>)

RECURSIVE PerFileItems(_)
PerFileItems(files) ==
    IF files = <<>> THEN <<>>
    ELSE LET entry == CHOOSE e \in Range(file_imports) : e[1] = Head(files)
         IN  FileLines(entry[1], entry[2]) \o PerFileItems(Tail(files))

PerFileLines ==
    << <<"Per-File Imports:">>, Rule("-") >>
    \o PerFileItems(SortPaths({file_imports[i][1] : i \in 1..Len(file_imports)}))
    \o <<Blank>>

\* the average taken over the files that have imports
Average_over_file_imports(total, files) ==
    IF files # <<>> THEN <<total, Len(file_imports)>> ELSE <<0, 1>>

\* total_imports / len(chunk["files"]) if chunk["files"] else 0, as a fraction
Average(total, files) ==
    IF files # <<>> THEN <<total, Len(files)>> ELSE <<0, 1>>

\* f"{avg:.1f}": the number of tenths, rounded half to even
Tenths(avg) ==
    LET q == (10 * avg[1]) \div avg[2]
        r == (10 * avg[1]) % avg[2]
    IN  IF 2 * r > avg[2] \/ (2 * r = avg[2] /\ q % 2 = 1) THEN q + 1 ELSE q

SummaryLines ==
    << <<"Summary:">>, Rule("-"),
       <<"  Total imports:", Len(all_imports)>>,
       <<"  Unique modules:", Cardinality(Range(all_imports))>>,
       <<"  Internal modules:", Len(Counter(internal))>>,
       <<"  External modules:", Len(Counter(external))>>,
       <<"  Average imports per file:", Tenths(Average(Len(all_imports), chunk.files))>>,
       <<"  Files with imports:", Len(file_imports), Len(chunk.files)>> >>

\* the traceback the interpreter prints for an exception nothing catches
Traceback(where, exc) ==
    << <<"Traceback (most recent call last):">>,
       <<"  File", "extract-deps.py", where>>,
       <<exc \o ":", "details">> >>

-----------------------------------------------------------------------------
(* The registries and project trees the runs start from *)

\* sequences over S of length at most n
RECURSIVE SeqsUpTo(_, _)
SeqsUpTo(S, n) ==
    IF n = 0 THEN {<<>>}
    ELSE SeqsUpTo(S, n - 1) \cup {Append(s, x) : s \in SeqsUpTo(S, n - 1), x \in S}

Distinct(s) == \A i, j \in 1..Len(s) : s[i] = s[j] => i = j

Text(imports) == [kind |-> "text", imports |-> imports]
Unreadable(kind) == [kind |-> kind, imports |-> <<>>]

\* identifiers of a generic source file: standard library, a module with a
\* file at the root, a module with a file under src/, a third-party package
SrcIdents == {"os", "utils", "models", "requests"}

\* long lists of third-party identifiers, the last one without and with a
\* repeated identifier
WideLists ==
    {ExtNames(TopExternal + k) : k \in 0..MaxOverflow}
    \cup {Append(ExtNames(TopExternal), ExtName(TopExternal))}

AContents ==
    {Text(l) : l \in SeqsUpTo(SrcIdents, MaxImports) \cup WideLists}
    \cup {Unreadable(k) : k \in {"missing", "denied", "isdir", "undecodable"}}
    \cup {[kind |-> "badsyntax", imports |-> <<"utils">>]}

BContents == {Text(<<"models">>), Unreadable("missing"), Unreadable("denied")}

UtilsContents == {Text(<<"os", "models">>), Unreadable("missing")}

DirsMenu == { {}, {RelPath("src", "models", "")}, {RelPath("lib", "requests", "")} }

Disk(a, b, u) ==
    (A_py :> a) @@ (B_rs :> b) @@ (Utils_py :> u)
    @@ (Models_rs :> Text(<<>>)) @@ (Notes_md :> Text(<<"requests">>))

\* the member files of the first chunk
C1Files == {s \in SeqsUpTo({A_py, B_rs, Notes_md}, MaxFiles) : Distinct(s)}

\* the member files of the later chunks: disjoint ownership (layout 1) or
\* files listed by two chunks (layout 2)
LaterFiles(layout, i) ==
    CASE i = 2 -> IF layout = 1 THEN <<Utils_py>> ELSE <<Utils_py, Models_rs>>
      [] i = 3 -> IF layout = 1 THEN <<Models_rs>> ELSE <<Models_rs, Utils_py>>
      [] OTHER -> <<>>

Chunk(i, files) ==
    [id |-> "c" \o ToString(i), name |-> "Phase " \o ToString(i),
     status |-> IF i = 2 THEN "complete" ELSE "pending", files |-> files]

Registry(n, layout, files1, current) ==
    [state |-> "ok",
     data |-> [chunks |-> [i \in 1..n |-> Chunk(i, IF i = 1 THEN files1 ELSE LaterFiles(layout, i))],
               current_chunk |-> current]]

BrokenRegistry(state) == [state |-> state, data |-> None]

Env(a, r, d, ds) == [argv |-> a, regFile |-> r, disk |-> d, dirs |-> ds]

\* the full registry analysed for its first chunk, over every project tree
ContentEnvs ==
    {Env("c1", Registry(MaxChunks, layout, files1, "c1"), Disk(a, b, u), ds) :
        layout \in 1..2, files1 \in C1Files, a \in AContents, b \in BContents,
        u \in UtilsContents, ds \in DirsMenu}

\* every registry shape and way of naming the chunk, over a small project tree
RegistryEnvs ==
    {Env(sel[1], Registry(n, layout, files1, sel[2]), Disk(a, Text(<<"models">>), Text(<<"os", "models">>)), {}) :
        sel \in {<<None, None>>, <<None, "c1">>, <<None, "c2">>,
                 <<"c1", "c1">>, <<"c2", "c1">>, <<"zz", "c1">>},
        n \in 0..MaxChunks, layout \in 1..2,
        files1 \in {<<>>, <<A_py, B_rs>>}, a \in {Text(<<"utils", "models">>), Text(<<>>)}}

\* a registry file that is missing or is not JSON
BrokenEnvs ==
    {Env(a, BrokenRegistry(st), Disk(Text(<<"utils">>), Text(<<>>), Text(<<>>)), {}) :
        a \in {None, "c1"}, st \in {"absent", "malformed"}}

Environments == ContentEnvs \cup RegistryEnvs \cup BrokenEnvs

\* the state of a run before main() starts
\* the other scripts of the repository have not run
OtherScriptsIdle ==
    /\ plan_phases = <<>>
    /\ phases = <<>>
    /\ chunk_list = <<>>
    /\ result = None
    /\ keep = <<>>
    /\ history_file = NoFile
    /\ backup_file = NoFile
    /\ history = <<>>

Fresh ==
    /\ pc = "start"
    /\ chunks_data = None
    /\ chunk_id = None
    /\ chunk = NoChunk
    /\ fi = 0
    /\ all_imports = <<>>
    /\ file_imports = <<>>
    /\ internal = <<>>
    /\ external = <<>>
    /\ cross_chunk_deps = {}
    /\ avg_per_file = NoAverage
    /\ stdout = <<>>
    /\ stderr = <<>>
    /\ exit_code = None
    /\ uncaught = None

Init ==
    /\ \E e \in Environments :
          /\ argv = e.argv
          /\ regFile = e.regFile
          /\ disk = e.disk
          /\ dirs = e.dirs
    /\ Fresh
    /\ run = 1
    /\ prev_stdout = <<>>
    /\ source = NoSource
    /\ extracted = <<>>
    /\ OtherScriptsIdle

-----------------------------------------------------------------------------
(* main() *)

envVars == <<argv, regFile, disk, dirs>>
runVars == <<run, prev_stdout>>
textVars == <<source, extracted>>
scriptVars == <<plan_phases, phases, chunk_list, result, keep,
                history_file, backup_file, history>>

\* sys.exit(code) after the diagnostic lines, or an exception nothing catches
Terminate(code, lines, exc) ==
    /\ stderr' = stderr \o lines
    /\ exit_code' = code
    /\ uncaught' = exc
    /\ pc' = "exited"

\* the chunk id: sys.argv[1], or the registry's current chunk
Main_GetChunkId ==
    /\ pc = "start"
    /\ IF argv # None
       THEN /\ chunk_id' = argv
            /\ pc' = "load"
            /\ UNCHANGED <<chunks_data, stderr, exit_code, uncaught>>
       ELSE CASE load_chunks.how = "exit" ->
                    /\ Terminate(1, load_chunks.err, None)
                    /\ UNCHANGED <<chunks_data, chunk_id>>
              [] load_chunks.how = "raise" ->
                    /\ Terminate(1, load_chunks.err, "JSONDecodeError")
                    /\ UNCHANGED <<chunks_data, chunk_id>>
              [] OTHER ->
                    /\ chunks_data' = load_chunks.data
                    /\ chunk_id' = load_chunks.data.current_chunk
                    /\ IF ~Truthy(load_chunks.data.current_chunk)
                       THEN Terminate(1, << <<"Error:", "No current chunk set">> >>, None)
                       ELSE /\ pc' = "load"
                            /\ UNCHANGED <<stderr, exit_code, uncaught>>
    /\ UNCHANGED <<chunk, fi, all_imports, file_imports, internal, external,
                   cross_chunk_deps, avg_per_file, stdout>>
    /\ UNCHANGED <<envVars, runVars, textVars, scriptVars>>

\* load the registry, look the chunk up, print the header
Main_LoadChunk ==
    /\ pc = "load"
    /\ CASE load_chunks.how = "exit" ->
                /\ Terminate(1, load_chunks.err, None)
                /\ UNCHANGED <<chunks_data, chunk, fi, stdout>>
          [] load_chunks.how = "raise" ->
                /\ Terminate(1, load_chunks.err, "JSONDecodeError")
                /\ UNCHANGED <<chunks_data, chunk, fi, stdout>>
          [] OTHER ->
                /\ chunks_data' = load_chunks.data
                /\ IF get_chunk(load_chunks.data, chunk_id) = NoChunk
                   THEN /\ Terminate(1, << <<"Error:", "Chunk not found", chunk_id>> >>, None)
                        /\ UNCHANGED <<chunk, fi, stdout>>
                   ELSE /\ chunk' = get_chunk(load_chunks.data, chunk_id)
                        /\ stdout' = stdout \o HeaderLines(get_chunk(load_chunks.data, chunk_id))
                        /\ fi' = 1
                        /\ pc' = "extract"
                        /\ UNCHANGED <<stderr, exit_code, uncaught>>
    /\ UNCHANGED <<chunk_id, all_imports, file_imports, internal, external,
                   cross_chunk_deps, avg_per_file>>
    /\ UNCHANGED <<envVars, runVars, textVars, scriptVars>>

\* the extraction round with `if imports:` dropped: every member file gets
\* an entry in file_imports
Main_ExtractFile_record_empty ==
    /\ pc = "extract"
    /\ fi <= Len(chunk.files)
    /\ LET file == chunk.files[fi]
           got  == extract_file_imports(file)
       IN  IF got.exc # None
           THEN /\ Terminate(1, Traceback("extract_file_imports", got.exc), got.exc)
                /\ UNCHANGED <<fi, all_imports, file_imports>>
           ELSE /\ all_imports' = all_imports \o got.imports
                /\ file_imports' = DictPut(file_imports, file, got.imports)
                /\ fi' = fi + 1
                /\ UNCHANGED <<pc, stderr, exit_code, uncaught>>
    /\ UNCHANGED <<chunks_data, chunk_id, chunk, internal, external,
                   cross_chunk_deps, avg_per_file, stdout>>
    /\ UNCHANGED <<envVars, runVars, textVars, scriptVars>>

\* one round of `for file in chunk["files"]` (extract-deps.py:244-248)
Main_ExtractFile ==
    /\ pc = "extract"
    /\ fi <= Len(chunk.files)
    /\ LET file == chunk.files[fi]
           got  == extract_file_imports(file)
       IN  IF got.exc # None
           THEN /\ Terminate(1, Traceback("extract_file_imports", got.exc), got.exc)
                /\ UNCHANGED <<fi, all_imports, file_imports>>
           ELSE /\ all_imports' = all_imports \o got.imports
                /\ file_imports' = IF got.imports # <<>>
                                   THEN DictPut(file_imports, file, got.imports)
                                   ELSE file_imports
                /\ fi' = fi + 1
                /\ UNCHANGED <<pc, stderr, exit_code, uncaught>>
    /\ UNCHANGED <<chunks_data, chunk_id, chunk, internal, external,
                   cross_chunk_deps, avg_per_file, stdout>>
    /\ UNCHANGED <<envVars, runVars, textVars, scriptVars>>

\* the no-imports exit, or the classification (extract-deps.py:250-260)
Main_Categorize ==
    /\ pc = "extract"
    /\ fi > Len(chunk.files)
    /\ IF all_imports = <<>>
       THEN /\ stdout' = Append(stdout, <<"No imports found in chunk files.">>)
            /\ Terminate(0, <<>>, None)
            /\ UNCHANGED <<internal, external>>
       ELSE /\ internal' = categorize_imports(all_imports, Cwd)[1]
            /\ external' = categorize_imports(all_imports, Cwd)[2]
            /\ pc' = "print_internal"
            /\ UNCHANGED <<stdout, stderr, exit_code, uncaught>>
    /\ UNCHANGED <<chunks_data, chunk_id, chunk, fi, all_imports, file_imports,
                   cross_chunk_deps, avg_per_file>>
    /\ UNCHANGED <<envVars, runVars, textVars, scriptVars>>

Main_PrintInternal ==
    /\ pc = "print_internal"
    /\ stdout' = stdout \o InternalLines(Cwd)
    /\ pc' = "print_external"
    /\ UNCHANGED <<chunks_data, chunk_id, chunk, fi, all_imports, file_imports,
                   internal, external, cross_chunk_deps, avg_per_file,
                   stderr, exit_code, uncaught>>
    /\ UNCHANGED <<envVars, runVars, textVars, scriptVars>>

Main_PrintExternal ==
    /\ pc = "print_external"
    /\ stdout' = stdout \o ExternalLines
    /\ pc' = "cross"
    /\ fi' = 1
    /\ UNCHANGED <<chunks_data, chunk_id, chunk, all_imports, file_imports,
                   internal, external, cross_chunk_deps, avg_per_file,
                   stderr, exit_code, uncaught>>
    /\ UNCHANGED <<envVars, runVars, textVars, scriptVars>>

\* the candidate source files of an import (extract-deps.py:294-299)
potential_files(imp) ==
    << RelPath("", imp, ".py"), RelPath("src", imp, ".py"),
       RelPath("", imp, ".rs"), RelPath("src", imp, ".rs") >>

\* the chunks one import adds to cross_chunk_deps (extract-deps.py:301-305)
CrossOfImport(imp) ==
    {find_chunk_for_file(chunks_data, potential_files(imp)[k]) : k \in
        {k \in 1..4 :
            /\ Exists(potential_files(imp)[k])
            /\ Truthy(find_chunk_for_file(chunks_data, potential_files(imp)[k]))
            /\ find_chunk_for_file(chunks_data, potential_files(imp)[k]) # chunk_id}}

\* one round of the second `for file in chunk["files"]` (extract-deps.py:290-305)
Main_CrossFile ==
    /\ pc = "cross"
    /\ fi <= Len(chunk.files)
    /\ LET got == extract_file_imports(chunk.files[fi])
       IN  IF got.exc # None
           THEN /\ Terminate(1, Traceback("extract_file_imports", got.exc), got.exc)
                /\ UNCHANGED <<fi, cross_chunk_deps>>
           ELSE /\ cross_chunk_deps' =
                      cross_chunk_deps \cup UNION {CrossOfImport(got.imports[k]) : k \in 1..Len(got.imports)}
                /\ fi' = fi + 1
                /\ UNCHANGED <<pc, stderr, exit_code, uncaught>>
    /\ UNCHANGED <<chunks_data, chunk_id, chunk, all_imports, file_imports,
                   internal, external, avg_per_file, stdout>>
    /\ UNCHANGED <<envVars, runVars, textVars, scriptVars>>

\* `for dep_chunk_id in cross_chunk_deps` iterates a set of strings
Main_PrintCross ==
    /\ pc = "cross"
    /\ fi > Len(chunk.files)
    /\ \E order \in IterationOrders(cross_chunk_deps) :
          stdout' = stdout \o CrossLines(order)
    /\ pc' = "per_file"
    /\ UNCHANGED <<chunks_data, chunk_id, chunk, fi, all_imports, file_imports,
                   internal, external, cross_chunk_deps, avg_per_file,
                   stderr, exit_code, uncaught>>
    /\ UNCHANGED <<envVars, runVars, textVars, scriptVars>>

Main_PrintPerFile ==
    /\ pc = "per_file"
    /\ stdout' = stdout \o PerFileLines
    /\ pc' = "summary"
    /\ UNCHANGED <<chunks_data, chunk_id, chunk, fi, all_imports, file_imports,
                   internal, external, cross_chunk_deps, avg_per_file,
                   stderr, exit_code, uncaught>>
    /\ UNCHANGED <<envVars, runVars, textVars, scriptVars>>

Main_Summary ==
    /\ pc = "summary"
    /\ avg_per_file' = Average(Len(all_imports), chunk.files)
    /\ stdout' = stdout \o SummaryLines
    /\ Terminate(0, <<>>, None)
    /\ UNCHANGED <<chunks_data, chunk_id, chunk, fi, all_imports, file_imports,
                   internal, external, cross_chunk_deps>>
    /\ UNCHANGED <<envVars, runVars, textVars, scriptVars>>

Next ==
    \/ Main_GetChunkId
    \/ Main_LoadChunk
    \/ Main_ExtractFile
    \/ Main_Categorize
    \/ Main_PrintInternal
    \/ Main_PrintExternal
    \/ Main_CrossFile
    \/ Main_PrintCross
    \/ Main_PrintPerFile
    \/ Main_Summary

Spec == Init /\ [][Next]_vars

-----------------------------------------------------------------------------
(* Running the report a second time over the same registry and tree *)

Rerun ==
    /\ pc = "exited"
    /\ run = 1
    /\ run' = 2
    /\ prev_stdout' = stdout
    /\ pc' = "start"
    /\ chunks_data' = None
    /\ chunk_id' = None
    /\ chunk' = NoChunk
    /\ fi' = 0
    /\ all_imports' = <<>>
    /\ file_imports' = <<>>
    /\ internal' = <<>>
    /\ external' = <<>>
    /\ cross_chunk_deps' = {}
    /\ avg_per_file' = NoAverage
    /\ stdout' = <<>>
    /\ stderr' = <<>>
    /\ exit_code' = None
    /\ uncaught' = None
    /\ UNCHANGED <<envVars, textVars, scriptVars>>

NextRerun == Next \/ Rerun

SpecRerun == Init /\ [][NextRerun]_vars

-----------------------------------------------------------------------------
(* A run while another process replaces the registry file *)

\* the registries the file may be replaced with
Rewrites ==
    {Registry(n, 1, <<A_py, B_rs>>, current) :
        n \in 0..MaxChunks, current \in {None, "c1", "c2"}}

InitConc ==
    /\ \E e \in RegistryEnvs :
          /\ argv = e.argv
          /\ regFile = e.regFile
          /\ disk = e.disk
          /\ dirs = e.dirs
    /\ Fresh
    /\ run = 1
    /\ prev_stdout = <<>>
    /\ source = NoSource
    /\ extracted = <<>>
    /\ OtherScriptsIdle

\* the registry file is replaced as a whole while main() is running
Registry_Rewrite ==
    /\ pc # "exited"
    /\ \E r \in Rewrites : r # regFile /\ regFile' = r
    /\ UNCHANGED <<argv, disk, dirs, pc, chunks_data, chunk_id, chunk, fi, all_imports,
                   file_imports, internal, external, cross_chunk_deps, avg_per_file,
                   stdout, stderr, exit_code, uncaught>>
    /\ UNCHANGED <<runVars, textVars, scriptVars>>

NextConc == Next \/ Registry_Rewrite

SpecConc == InitConc /\ [][NextConc]_vars

-----------------------------------------------------------------------------
(* categorize_imports on its own: every short list of identifiers over a    *)
(* family of project trees                                                  *)

\* two allow-listed identifiers, one found in most trees, one in nearly none
CoreIdents == {"os", "std", "utils", "requests"}

\* every list over the core identifiers, and every allow-listed identifier
\* after every shorter such list
CatInputs ==
    SeqsUpTo(CoreIdents, MaxCatLen)
    \cup {Append(s, x) : s \in SeqsUpTo(CoreIdents, MaxCatLen - 1),
                         x \in python_stdlib \cup rust_stdlib \cup go_stdlib \cup js_builtins}

\* project trees: <<files, directories>>
CatTrees ==
    { << {}, {} >>,
      << {}, {RelPath("", "utils", "")} >>,
      << {RelPath("", "utils", ".py")}, {} >>,
      << {}, {RelPath("src", "utils", "")} >>,
      << {}, {RelPath("lib", "utils", "")} >>,
      << {RelPath("", "os", ".py"), RelPath("", "fs", ".py")},
         {RelPath("", "os", ""), RelPath("src", "std", ""), RelPath("lib", "fmt", "")} >>,
      << {RelPath("src", "utils", ".py"), RelPath("", "utils", ".rs")},
         {RelPath("pkg", "utils", "")} >>,
      << {RelPath("", "utils", ".py"), RelPath("", "os", ".py")},
         {RelPath("", "requests", "")} >> }

InitCat ==
    /\ \E tree \in CatTrees :
          /\ disk = [p \in tree[1] |-> Text(<<>>)]
          /\ dirs = tree[2]
    /\ all_imports \in CatInputs
    /\ pc = "categorize"
    /\ argv = None
    /\ regFile = BrokenRegistry("absent")
    /\ chunks_data = None
    /\ chunk_id = None
    /\ chunk = NoChunk
    /\ fi = 0
    /\ file_imports = <<>>
    /\ internal = <<>>
    /\ external = <<>>
    /\ cross_chunk_deps = {}
    /\ avg_per_file = NoAverage
    /\ stdout = <<>>
    /\ stderr = <<>>
    /\ exit_code = None
    /\ uncaught = None
    /\ run = 1
    /\ prev_stdout = <<>>
    /\ source = NoSource
    /\ extracted = <<>>
    /\ OtherScriptsIdle

Categorize_Call ==
    /\ pc = "categorize"
    /\ internal' = categorize_imports(all_imports, Cwd)[1]
    /\ external' = categorize_imports(all_imports, Cwd)[2]
    /\ pc' = "categorized"
    /\ UNCHANGED <<chunks_data, chunk_id, chunk, fi, all_imports, file_imports,
                   cross_chunk_deps, avg_per_file, stdout, stderr, exit_code, uncaught>>
    /\ UNCHANGED <<envVars, runVars, textVars, scriptVars>>

NextCat == Categorize_Call

SpecCat == InitCat /\ [][NextCat]_vars

-----------------------------------------------------------------------------
(* The extractors on the text of a source file.  A text is a sequence of    *)
(* tokens: a word (a maximal run of letters, digits and underscores) or one *)
(* other character.  In the runs above, the `imports` of a file stand for   *)
(* what its extractor returns on the file's text.                           *)

Space == " "
Newline == "\n"
Quotes == {"'", "\""}

\* the characters outside [a-zA-Z0-9_] that occur in the texts
NonWord == {Space, Newline, "'", "\"", ".", ",", ":", ";", "/", "(", ")",
            "{", "}", "=", "@", "*", "#"}

\* \s
Spaces == {Space, Newline}

\* the token at index i, or the empty string past the end of the text
At(s, i) == IF i \in 1..Len(s) THEN s[i] ELSE ""

\* the index after the longest run, from index i, of tokens in class
RECURSIVE SkipWhile(_, _, _)
SkipWhile(s, i, class) ==
    IF i <= Len(s) /\ s[i] \in class THEN SkipWhile(s, i + 1, class) ELSE i

\* the index after the longest run, from index i, of tokens not in stop
RECURSIVE SkipUntil(_, _, _)
SkipUntil(s, i, stop) ==
    IF i <= Len(s) /\ s[i] \notin stop THEN SkipUntil(s, i + 1, stop) ELSE i

\* ''.join(tokens)
RECURSIVE Join(_)
Join(tokens) == IF tokens = <<>> THEN "" ELSE Head(tokens) \o Join(Tail(tokens))

\* str.split(sep): the pieces of s between the occurrences of sep, left to right
RECURSIVE Split(_, _)
Split(s, sep) ==
    LET n == Len(sep)
        hits == {i \in 1..(Len(s) - n + 1) : SubSeq(s, i, i + n - 1) = sep}
    IN  IF hits = {} THEN <<s>>
        ELSE LET i == CHOOSE i \in hits : \A j \in hits : i <= j
             IN  <<SubSeq(s, 1, i - 1)>> \o Split(SubSeq(s, i + n, Len(s)), sep)

\* `for line in f`
Lines(text) == Split(text, <<Newline>>)

\* a dotted name: words separated by single dots
IsDottedName(tokens) ==
    /\ Len(tokens) % 2 = 1
    /\ \A i \in 1..Len(tokens) :
          IF i % 2 = 1 THEN tokens[i] \notin NonWord ELSE tokens[i] = "."

WithoutSpaces(tokens) == SelectSeq(tokens, LAMBDA t : t # Space)

\* tokens with every run of spaces cut down to one space
RECURSIVE Squeeze(_)
Squeeze(tokens) ==
    IF Len(tokens) < 2 THEN tokens
    ELSE IF tokens[1] = Space /\ tokens[2] = Space THEN Squeeze(Tail(tokens))
    ELSE <<Head(tokens)>> \o Squeeze(Tail(tokens))

Node(type, names, module, level) ==
    [type |-> type, names |-> names, module |-> module, level |-> level]

\* s[a..b], cut at the end of s
Slice(s, a, b) == SubSeq(s, a, Min(b, Len(s)))

\* what ast.parse refuses
SyntaxError == <<Node("SyntaxError", <<>>, <<>>, 0)>>

\* the statement ast.parse makes of one line at module level: <<node>>, <<>>
\* for a blank line or a comment, SyntaxError for an indented line and for
\* anything else but an import statement or the assignment of a name to a
\* name (the texts of the model hold no other valid statement)
ParseStatement(text_line) ==
    LET line == Squeeze(text_line)
        rest == SubSeq(line, 3, Len(line))
        names == Split(WithoutSpaces(rest), <<",">>)
        dots == SkipWhile(rest, 1, {"."}) - 1
        stop == SkipUntil(rest, dots + 1, {Space})
        module == SubSeq(rest, dots + 1, stop - 1)
        imported == Split(WithoutSpaces(SubSeq(rest, stop + 3, Len(rest))), <<",">>)
    IN  CASE WithoutSpaces(line) = <<>> \/ At(line, 1) = "#" -> <<>>
          [] At(line, 1) = "import" /\ At(line, 2) = Space ->
                IF \A i \in 1..Len(names) : IsDottedName(names[i])
                THEN <<Node("Import", names, <<>>, 0)>>
                ELSE SyntaxError
          [] At(line, 1) = "from" /\ At(line, 2) = Space ->
                IF /\ module = <<>> \/ IsDottedName(module)
                   /\ dots > 0 \/ module # <<>>
                   /\ Slice(rest, stop, stop + 2) = <<Space, "import", Space>>
                   /\ \A i \in 1..Len(imported) :
                         Len(imported[i]) = 1 /\ imported[i][1] \notin NonWord \ {"*"}
                THEN <<Node("ImportFrom", imported, module, dots)>>
                ELSE SyntaxError
          [] /\ Len(line) = 5
             /\ line[1] \notin NonWord /\ line[5] \notin NonWord
             /\ SubSeq(line, 2, 4) = <<Space, "=", Space>> ->
                <<Node("Assign", <<>>, <<>>, 0)>>
          [] OTHER -> SyntaxError

\* ast.parse(f.read()): the statements of the module in source order, which
\* is the order ast.walk visits them in
RECURSIVE ast_parse(_)
ast_parse(lines) ==
    IF lines = <<>> THEN <<>>
    ELSE ParseStatement(Head(lines)) \o ast_parse(Tail(lines))

\* ast.parse raises SyntaxError
Unparsable(tree) == \E i \in 1..Len(tree) : tree[i].type = "SyntaxError"

\* alias.name.split('.')[0] for every alias of an Import node
RECURSIVE AliasTops(_)
AliasTops(names) ==
    IF names = <<>> THEN <<>>
    ELSE <<Join(Split(Head(names), <<".">>)[1])>> \o AliasTops(Tail(names))

\* the loop over ast.walk(tree) (extract-deps.py:52-59)
RECURSIVE WalkImports(_)
WalkImports(tree) ==
    IF tree = <<>> THEN <<>>
    ELSE LET node == Head(tree)
         IN  (CASE node.type = "Import" -> AliasTops(node.names)
                [] node.type = "ImportFrom" /\ node.module # <<>> ->
                      <<Join(Split(node.module, <<".">>)[1])>>
                [] OTHER -> <<>>)
             \o WalkImports(Tail(tree))

\* re.match(r'^\s*<keyword>\s+([a-zA-Z0-9_]+)', line): <<group 1>> or <<>>
KeywordWordMatch(keyword, line) ==
    LET i == SkipWhile(line, 1, Spaces)
        j == SkipWhile(line, i + 1, Spaces)
    IN  IF At(line, i) = keyword /\ j > i + 1 /\ At(line, j) \notin NonWord \cup {""}
        THEN <<line[j]>>
        ELSE <<>>

\* the regex fallback of extract_python_imports (extract-deps.py:65-69)
RECURSIVE PythonFallback(_)
PythonFallback(lines) ==
    IF lines = <<>> THEN <<>>
    ELSE (IF KeywordWordMatch("import", Head(lines)) # <<>>
          THEN KeywordWordMatch("import", Head(lines))
          ELSE KeywordWordMatch("from", Head(lines)))
         \o PythonFallback(Tail(lines))

\* extract_python_imports on the text of a readable file
python_imports(lines) ==
    IF Unparsable(ast_parse(lines)) THEN PythonFallback(lines)
    ELSE WalkImports(ast_parse(lines))

\* re.match(r'^\s*use\s+(crate|super|self)?::?([a-zA-Z0-9_:]+)', line):
\* <<group 1 or None, group 2>>, or <<>> when the line does not match
RustUseMatch(line) ==
    LET i == SkipWhile(line, 1, Spaces)
        j == SkipWhile(line, i + 1, Spaces)
        scoped == At(line, j) \in {"crate", "super", "self"}
        k == IF scoped THEN j + 1 ELSE j
        PathFrom(p) == SubSeq(line, p, SkipUntil(line, p, NonWord \ {":"}) - 1)
    IN  IF At(line, i) # "use" \/ j = i + 1 \/ At(line, k) # ":" THEN <<>>
        ELSE IF At(line, k + 1) = ":" /\ PathFrom(k + 2) # <<>>
             THEN <<IF scoped THEN line[j] ELSE None, PathFrom(k + 2)>>
        ELSE IF PathFrom(k + 1) # <<>>
             THEN <<IF scoped THEN line[j] ELSE None, PathFrom(k + 1)>>
        ELSE <<>>

\* one round of the loop of extract_rust_uses (extract-deps.py:82-88)
RustLine(line) ==
    LET match == RustUseMatch(line)
        scope == IF match[1] # None THEN match[1] ELSE "external"
    IN  IF match # <<>> /\ scope \in {"crate", "super", "self"}
        THEN <<Join(Split(match[2], <<":", ":">>)[1])>>
        ELSE <<>>

RECURSIVE rust_uses(_)
rust_uses(lines) ==
    IF lines = <<>> THEN <<>> ELSE RustLine(Head(lines)) \o rust_uses(Tail(lines))

\* ['"]([^'"]+)['"] with the opening quote at index q, for the quote
\* characters given: group 1, or <<>> when there is no match
Quoted(s, q, quotes) ==
    LET k == SkipUntil(s, q + 1, quotes)
    IN  IF At(s, q) \in quotes /\ k > q + 1 /\ At(s, k) \in quotes
        THEN SubSeq(s, q + 1, k - 1)
        ELSE <<>>

\* match.group(1).split('/')[-1]
LastSegment(path) == Join(Split(path, <<"/">>)[Len(Split(path, <<"/">>))])

\* the match of r'^\s*import\s+"([^"]+)"' (re.MULTILINE) that starts at
\* index p: <<group 1, index after the match>>, or <<>>
GoSingleAt(content, p) ==
    LET i == SkipWhile(content, p, Spaces)
        j == SkipWhile(content, i + 1, Spaces)
        path == Quoted(content, j, {"\""})
    IN  IF /\ p = 1 \/ content[p - 1] = Newline
           /\ At(content, i) = "import"
           /\ j > i + 1
           /\ path # <<>>
        THEN <<path, j + Len(path) + 2>>
        ELSE <<>>

\* the loop over re.finditer (extract-deps.py:104-106), from index p on
RECURSIVE GoSingles(_, _)
GoSingles(content, p) ==
    IF p > Len(content) THEN <<>>
    ELSE IF GoSingleAt(content, p) # <<>>
         THEN <<LastSegment(GoSingleAt(content, p)[1])>>
              \o GoSingles(content, GoSingleAt(content, p)[2])
         ELSE GoSingles(content, p + 1)

\* the match of r'import\s*\((.*?)\)' (re.DOTALL) at index p: <<group 1>>
\* or <<>>; no word of the texts ends in "import" but the keyword itself
GoBlockAt(content, p) ==
    LET q == SkipWhile(content, p + 1, Spaces)
        r == SkipUntil(content, q + 1, {")"})
    IN  IF At(content, p) = "import" /\ At(content, q) = "(" /\ At(content, r) = ")"
        THEN <<SubSeq(content, q + 1, r - 1)>>
        ELSE <<>>

\* re.search: the leftmost match
import_block(content) ==
    LET hits == {p \in 1..Len(content) : GoBlockAt(content, p) # <<>>}
    IN  IF hits = {} THEN <<>>
        ELSE GoBlockAt(content, CHOOSE p \in hits : \A h \in hits : p <= h)

\* the loop over the lines of the block (extract-deps.py:111-114)
RECURSIVE GoBlockLines(_)
GoBlockLines(lines) ==
    IF lines = <<>> THEN <<>>
    ELSE LET path == Quoted(Head(lines), SkipWhile(Head(lines), 1, Spaces), {"\""})
         IN  (IF path # <<>> THEN <<LastSegment(path)>> ELSE <<>>)
             \o GoBlockLines(Tail(lines))

go_imports(content) ==
    GoSingles(content, 1)
    \o (IF import_block(content) # <<>>
        THEN GoBlockLines(Split(import_block(content)[1], <<Newline>>))
        ELSE <<>>)

\* re.match(r'^\s*import\s+.*\s+from\s+[\'"]([^\'"]+)[\'"]', line): group 1
\* behind the last `from` that fits, or <<>>
JsImportMatch(line) ==
    LET i == SkipWhile(line, 1, Spaces)
        After(p) == SkipWhile(line, p + 1, Spaces)
        hits == {p \in (i + 3)..Len(line) :
                    /\ line[p] = "from"
                    /\ line[p - 1] \in Spaces
                    /\ After(p) > p + 1
                    /\ Quoted(line, After(p), Quotes) # <<>>}
    IN  IF At(line, i) = "import" /\ At(line, i + 1) \in Spaces /\ hits # {}
        THEN Quoted(line, After(CHOOSE p \in hits : \A h \in hits : h <= p), Quotes)
        ELSE <<>>

\* re.match(r'require\([\'"]([^\'"]+)[\'"]\)', line): group 1, or <<>>
JsRequireMatch(line) ==
    LET module == Quoted(line, 3, Quotes)
    IN  IF /\ At(line, 1) = "require"
           /\ At(line, 2) = "("
           /\ module # <<>>
           /\ At(line, 4 + Len(module) + 1) = ")"
        THEN module
        ELSE <<>>

\* `if not module.startswith('.')`: module.split('/')[0]
PackageOf(module) ==
    IF module[1] # "." THEN <<Join(Split(module, <<"/">>)[1])>> ELSE <<>>

\* one round of the loop of extract_js_imports (extract-deps.py:128-140)
JsLine(line) ==
    IF JsImportMatch(line) # <<>> THEN PackageOf(JsImportMatch(line))
    ELSE IF JsRequireMatch(line) # <<>> THEN PackageOf(JsRequireMatch(line))
    ELSE <<>>

RECURSIVE js_imports(_)
js_imports(lines) ==
    IF lines = <<>> THEN <<>> ELSE JsLine(Head(lines)) \o js_imports(Tail(lines))

-----------------------------------------------------------------------------
(* An extractor applied to one source file.  A file is a sequence of units, *)
(* each the text of one statement (one or more lines) with what the         *)
(* statement declares in its language: the kind of import and the path.     *)

Unit(text, declares) == [text |-> text, declares |-> declares]
Decl(kind, path) == [kind |-> kind, path |-> path]

DQ(path) == <<"\"">> \o path \o <<"\"">>
SQ(path) == <<"'">> \o path \o <<"'">>

PythonUnits ==
    { Unit(<<"import", Space, "os", Newline>>, <<Decl("absolute", <<"os">>)>>),
      Unit(<<"import", Space, "requests", Newline>>, <<Decl("absolute", <<"requests">>)>>),
      Unit(<<"from", Space, ".", "utils", Space, "import", Space, "helper", Newline>>,
           <<Decl("relative", <<"utils">>)>>),
      Unit(<<"from", Space, ".", ".", "models", ".", "user", Space, "import", Space, "User", Newline>>,
           <<Decl("relative", <<"models", ".", "user">>)>>),
      Unit(<<"from", Space, ".", Space, "import", Space, "helper", Newline>>,
           <<Decl("relative", <<>>)>>),
      Unit(<<"from", Space, "utils", ".", "text", Space, "import", Space, "wrap", Newline>>,
           <<Decl("absolute", <<"utils", ".", "text">>)>>),
      Unit(<<"def", Space, "(", Newline>>, <<>>) }

RustUnits ==
    { Unit(<<"use", Space, "crate", ":", ":", "models", ":", ":", "User", ";", Newline>>,
           <<Decl("crate", <<"models", ":", ":", "User">>)>>),
      Unit(<<"use", Space, "super", ":", ":", "utils", ";", Newline>>,
           <<Decl("super", <<"utils">>)>>),
      Unit(<<Space, "use", Space, "self", ":", ":", "inner", ":", ":", "f", ";", Newline>>,
           <<Decl("self", <<"inner", ":", ":", "f">>)>>),
      Unit(<<"use", Space, "std", ":", ":", "io", ";", Newline>>,
           <<Decl("extern", <<"std", ":", ":", "io">>)>>),
      Unit(<<"use", Space, ":", ":", "ext", ":", ":", "x", ";", Newline>>,
           <<Decl("extern", <<"ext", ":", ":", "x">>)>>),
      Unit(<<"use", Space, "crate", ":", ":", "{", "a", ",", Space, "b", "}", ";", Newline>>,
           <<Decl("crate", <<"a">>), Decl("crate", <<"b">>)>>),
      Unit(<<"fn", Space, "main", "(", ")", Space, "{", "}", Newline>>, <<>>) }

GoUnits ==
    { Unit(<<"import", Space>> \o DQ(<<"fmt">>) \o <<Newline>>,
           <<Decl("single", <<"fmt">>)>>),
      Unit(<<"import", Space, "(", Newline,
             Space>> \o DQ(<<"encoding", "/", "json">>) \o <<Newline,
             Space>> \o DQ(<<"github", ".", "com", "/", "foo", "/", "bar">>) \o <<Newline,
             ")", Newline>>,
           <<Decl("block", <<"encoding", "/", "json">>),
             Decl("block", <<"github", ".", "com", "/", "foo", "/", "bar">>)>>),
      Unit(<<"import", Space, "(", Newline, Space>> \o DQ(<<"net", "/", "http">>)
             \o <<Newline, ")", Newline>>,
           <<Decl("block", <<"net", "/", "http">>)>>),
      Unit(<<"import", Space, "(", Space>> \o DQ(<<"math", "/", "rand">>) \o <<";", Space>>
             \o DQ(<<"strings">>) \o <<Space, ")", Newline>>,
           <<Decl("block", <<"math", "/", "rand">>), Decl("block", <<"strings">>)>>),
      Unit(<<"import", Space, "(", Newline, Space, "yaml", Space>>
             \o DQ(<<"gopkg", ".", "in", "/", "yaml">>) \o <<Newline, ")", Newline>>,
           <<Decl("block", <<"gopkg", ".", "in", "/", "yaml">>)>>),
      Unit(<<"func", Space, "main", "(", ")", Space, "{", "}", Newline>>, <<>>) }

JsUnits ==
    { Unit(<<"import", Space, "fp", Space, "from", Space>> \o SQ(<<"lodash", "/", "fp">>)
             \o <<";", Newline>>,
           <<Decl("import", <<"lodash", "/", "fp">>)>>),
      Unit(<<"import", Space, "{", "a", "}", Space, "from", Space>>
             \o DQ(<<"@", "scope", "/", "pkg">>) \o <<Newline>>,
           <<Decl("import", <<"@", "scope", "/", "pkg">>)>>),
      Unit(<<"import", Space, "local", Space, "from", Space>> \o SQ(<<".", "/", "local">>)
             \o <<Newline>>,
           <<Decl("import", <<".", "/", "local">>)>>),
      Unit(<<"require", "(">> \o SQ(<<"dotenv", "/", "config">>) \o <<")", ";", Newline>>,
           <<Decl("require", <<"dotenv", "/", "config">>)>>),
      Unit(<<"require", "(">> \o SQ(<<".", ".", "/", "setup">>) \o <<")", Newline>>,
           <<Decl("require", <<".", ".", "/", "setup">>)>>),
      Unit(<<"const", Space, "express", Space, "=", Space, "require", "(">>
             \o SQ(<<"express">>) \o <<")", ";", Newline>>,
           <<Decl("require", <<"express">>)>>),
      Unit(<<"let", Space, "n", Space, "=", Space, "1", ";", Newline>>, <<>>) }

\* the files of a language: every sequence of at most MaxUnits of its units
SourceFiles(suffix, units) ==
    {[suffix |-> suffix, units |-> us] : us \in SeqsUpTo(units, MaxUnits)}

TextSources ==
    SourceFiles(".py", PythonUnits) \cup SourceFiles(".rs", RustUnits)
    \cup SourceFiles(".go", GoUnits) \cup SourceFiles(".ts", JsUnits)

\* f.read()
RECURSIVE Content(_)
Content(units) ==
    IF units = <<>> THEN <<>> ELSE Head(units).text \o Content(Tail(units))

InitText ==
    /\ source \in TextSources
    /\ extracted = <<>>
    /\ OtherScriptsIdle
    /\ pc = "extract_file_imports"
    /\ argv = None
    /\ regFile = BrokenRegistry("absent")
    /\ disk = <<>>
    /\ dirs = {}
    /\ chunks_data = None
    /\ chunk_id = None
    /\ chunk = NoChunk
    /\ fi = 0
    /\ all_imports = <<>>
    /\ file_imports = <<>>
    /\ internal = <<>>
    /\ external = <<>>
    /\ cross_chunk_deps = {}
    /\ avg_per_file = NoAverage
    /\ stdout = <<>>
    /\ stderr = <<>>
    /\ exit_code = None
    /\ uncaught = None
    /\ run = 1
    /\ prev_stdout = <<>>

\* extract_file_imports returns what the extractor of the suffix returns
Extracted(imports) ==
    /\ pc = "extract_file_imports"
    /\ extracted' = imports
    /\ pc' = "returned"
    /\ UNCHANGED <<source, chunks_data, chunk_id, chunk, fi, all_imports, file_imports,
                   internal, external, cross_chunk_deps, avg_per_file,
                   stdout, stderr, exit_code, uncaught>>
    /\ UNCHANGED <<envVars, runVars, scriptVars>>

Extract_Python ==
    /\ source.suffix = ".py"
    /\ Extracted(python_imports(Lines(Content(source.units))))

Extract_Rust ==
    /\ source.suffix = ".rs"
    /\ Extracted(rust_uses(Lines(Content(source.units))))

Extract_Go ==
    /\ source.suffix = ".go"
    /\ Extracted(go_imports(Content(source.units)))

Extract_Js ==
    /\ source.suffix \in {".js", ".jsx", ".ts", ".tsx"}
    /\ Extracted(js_imports(Lines(Content(source.units))))

NextText ==
    \/ Extract_Python
    \/ Extract_Rust
    \/ Extract_Go
    \/ Extract_Js

SpecText == InitText /\ [][NextText]_vars

-----------------------------------------------------------------------------
(* create-phases.py: the registry generate_chunks builds.  A phase name and a
   chunk id are sequences of characters, so that lower(), replace() and the
   formatting of the id are computed and two ids are equal exactly when the
   strings are. *)

UpperCase ==
    <<"A", "B", "C", "D", "E", "F", "G", "H", "I", "J", "K", "L", "M", "N",
      "O", "P", "Q", "R", "S", "T", "U", "V", "W", "X", "Y", "Z">>

LowerCase ==
    <<"a", "b", "c", "d", "e", "f", "g", "h", "i", "j", "k", "l", "m", "n",
      "o", "p", "q", "r", "s", "t", "u", "v", "w", "x", "y", "z">>

\* str.lower() on one character and on a string
LowerChar(c) ==
    IF \E k \in 1..Len(UpperCase) : UpperCase[k] = c
    THEN LowerCase[CHOOSE k \in 1..Len(UpperCase) : UpperCase[k] = c]
    ELSE c

lower(s) == [k \in 1..Len(s) |-> LowerChar(s[k])]

\* str.replace(old, new) for a one-character old and a new of at most one
RECURSIVE replace(_, _, _)
replace(s, old, new) ==
    IF s = <<>> THEN <<>>
    ELSE (IF Head(s) = old THEN new ELSE <<Head(s)>>) \o replace(Tail(s), old, new)

\* sub in s
Contains(s, sub) ==
    \E k \in 0..(Len(s) - Len(sub)) : SubSeq(s, k + 1, k + Len(sub)) = sub

DecimalDigits == <<"0", "1", "2", "3", "4", "5", "6", "7", "8", "9">>

\* str(n) for n >= 0
RECURSIVE Decimal(_)
Decimal(n) ==
    IF n < 10 THEN <<DecimalDigits[n + 1]>>
    ELSE Decimal(n \div 10) \o <<DecimalDigits[(n % 10) + 1]>>

ChunkPhasePrefix ==
    <<"c", "h", "u", "n", "k", "_", "p", "h", "a", "s", "e", "_">>

\* the phase name as it appears in a chunk id
Slug(name) == replace(replace(lower(name), " ", <<"_">>), ":", <<>>)

\* the id without the position of the phase
format_chunk_id_unnumbered(i, name) == ChunkPhasePrefix \o Slug(name)

\* f"chunk_phase_{i}_{name.lower().replace(' ', '_').replace(':', '')}"
format_chunk_id(i, name) ==
    ChunkPhasePrefix \o Decimal(i) \o <<"_">> \o Slug(name)

Phase(name, description, src) ==
    [name |-> name, description |-> description, source |-> src]

\* the three phases used when nothing is detected
DefaultPhases ==
    <<Phase(
          <<"P", "h", "a", "s", "e", " ", "1", ":", " ", "S", "e", "t", "u",
            "p">>,
          "Initial project setup", "default"),
      Phase(
          <<"P", "h", "a", "s", "e", " ", "2", ":", " ", "C", "o", "r", "e",
            " ", "I", "m", "p", "l", "e", "m", "e", "n", "t", "a", "t", "i",
            "o", "n">>,
          "Core functionality", "default"),
      Phase(
          <<"P", "h", "a", "s", "e", " ", "3", ":", " ", "T", "e", "s", "t",
            "i", "n", "g">>,
          "Tests and QA", "default")>>

\* phase_indicators, in the order of the dictionary
phase_indicators ==
    <<[indicator |-> <<"s", "e", "t", "u", "p">>,
       description |-> "Initial project setup and dependencies",
       name |->
          <<"S", "e", "t", "u", "p", " ", "&", " ", "C", "o", "n", "f", "i",
            "g", "u", "r", "a", "t", "i", "o", "n">>],
      [indicator |-> <<"c", "o", "n", "f", "i", "g">>,
       description |-> "Project configuration files",
       name |->
          <<"C", "o", "n", "f", "i", "g", "u", "r", "a", "t", "i", "o", "n">>],
      [indicator |-> <<"c", "o", "r", "e">>,
       description |-> "Core functionality and business logic",
       name |->
          <<"C", "o", "r", "e", " ", "I", "m", "p", "l", "e", "m", "e", "n",
            "t", "a", "t", "i", "o", "n">>],
      [indicator |-> <<"a", "p", "i">>,
       description |-> "REST API endpoints and integration",
       name |->
          <<"A", "P", "I", " ", "I", "n", "t", "e", "g", "r", "a", "t", "i",
            "o", "n">>],
      [indicator |-> <<"d", "a", "t", "a", "b", "a", "s", "e">>,
       description |-> "Database schema and migrations",
       name |->
          <<"D", "a", "t", "a", "b", "a", "s", "e", " ", "S", "e", "t", "u",
            "p">>],
      [indicator |-> <<"a", "u", "t", "h">>,
       description |-> "User authentication and authorization",
       name |->
          <<"A", "u", "t", "h", "e", "n", "t", "i", "c", "a", "t", "i", "o",
            "n">>],
      [indicator |-> <<"f", "r", "o", "n", "t", "e", "n", "d">>,
       description |-> "User interface implementation",
       name |->
          <<"F", "r", "o", "n", "t", "e", "n", "d">>],
      [indicator |-> <<"u", "i">>,
       description |-> "UI components and layouts",
       name |->
          <<"U", "s", "e", "r", " ", "I", "n", "t", "e", "r", "f", "a", "c",
            "e">>],
      [indicator |-> <<"t", "e", "s", "t", "s">>,
       description |-> "Test suite and quality assurance",
       name |->
          <<"T", "e", "s", "t", "i", "n", "g">>],
      [indicator |-> <<"d", "o", "c", "s">>,
       description |-> "Project documentation",
       name |->
          <<"D", "o", "c", "u", "m", "e", "n", "t", "a", "t", "i", "o", "n">>]>>

MaxPhases == 3       \* headings of the plan file
MaxLong == 11        \* headings of the long plan file
MaxPhaseFiles == 50  \* files kept per phase

\* the headings detect_from_plan_file keeps: equal names, names that differ
\* only in case, in a space against an underscore, in a colon, and a name
\* that starts with a digit
PlanNames ==
    {<<"A">>,
     <<"a">>,
     <<"a", " ", "b">>,
     <<"a", "_", "b">>,
     <<"a", ":">>,
     <<"1", "_", "a">>}

PlanPhase(name) == Phase(name, "Phase extracted from plan", "plan_file")

\* a plan whose first heading, numbered 1, starts with the digit 1, followed
\* by enough headings for a two-digit position
LongPlan ==
    [k \in 1..MaxLong |-> PlanPhase(IF k = 1 THEN <<"1", "_", "a">> ELSE <<"a">>)]

detect_from_plan_file ==
    {[k \in 1..Len(names) |-> PlanPhase(names[k])] :
        names \in SeqsUpTo(PlanNames, MaxPhases)} \cup {LongPlan}

\* the top-level directories of the project, by name
DirNames ==
    {<<"t", "e", "s", "t", "s">>,
     <<"C", "o", "r", "e", "_", "A", "P", "I">>,
     <<"b", "u", "i", "l", "d">>,
     <<"d", "o", "c", "s">>,
     <<"s", "r", "c">>}

DirsMenuPhases ==
    {{}, DirNames} \cup {{d} : d \in DirNames}
        \cup {{<<"t", "e", "s", "t", "s">>, <<"d", "o", "c", "s">>}}

\* one phase for each indicator some directory name contains, in the order
\* of phase_indicators (the directory key of the phase is not modelled:
\* generate_chunks does not read it)
RECURSIVE DetectFrom(_, _)
DetectFrom(k, tree) ==
    IF k > Len(phase_indicators) THEN <<>>
    ELSE (IF \E d \in tree : Contains(lower(d), phase_indicators[k].indicator)
          THEN <<Phase(phase_indicators[k].name, phase_indicators[k].description,
                       "directory_structure")>>
          ELSE <<>>) \o DetectFrom(k + 1, tree)

detect_from_directory_structure(tree) == DetectFrom(1, tree)

\* the files of the project that the scan of infer_files_for_phase matches,
\* by the first keyword of the branch taken: a project holding setup.py,
\* src/api.py, tests/test_api.py and README.md
ScanMatches(branch) ==
    CASE branch = "setup" -> <<"setup.py">>
      [] branch = "api" -> <<"src/api.py", "tests/test_api.py">>
      [] branch = "test" -> <<"tests/test_api.py">>
      [] branch = "doc" -> <<"README.md">>
      [] OTHER -> <<>>

KeywordBranch(name) ==
    IF Contains(name, <<"s", "e", "t", "u", "p">>) \/ Contains(name, <<"c", "o", "n", "f", "i", "g">>)
    THEN "setup"
    ELSE IF Contains(name, <<"d", "a", "t", "a", "b", "a", "s", "e">>) THEN "database"
    ELSE IF Contains(name, <<"a", "p", "i">>) THEN "api"
    ELSE IF Contains(name, <<"a", "u", "t", "h">>) THEN "auth"
    ELSE IF Contains(name, <<"t", "e", "s", "t">>) THEN "test"
    ELSE IF Contains(name, <<"f", "r", "o", "n", "t", "e", "n", "d">>) \/ Contains(name, <<"u", "i">>)
    THEN "frontend"
    ELSE IF Contains(name, <<"d", "o", "c">>) THEN "doc"
    ELSE "none"

infer_files_for_phase(phase) ==
    Slice(ScanMatches(KeywordBranch(lower(phase.name))), 1, MaxPhaseFiles)

\* the chunk built for the i-th phase
BuildChunk(i, phase, all_phases) ==
    [id |-> format_chunk_id(i, phase.name),
     name |-> phase.name,
     description |-> phase.description,
     files |-> infer_files_for_phase(phase),
     entry_points |-> Slice(infer_files_for_phase(phase), 1, 2),
     dependencies |->
         IF i > 1 THEN <<format_chunk_id(i - 1, all_phases[i - 1].name)>>
         ELSE <<>>,
     status |-> "pending",
     completion |-> 0]

\* the registry returned (created_at, a timestamp, is not modelled)
PhaseRegistry(cs) ==
    [strategy |-> "phase-based",
     project_root |-> Cwd,
     chunks |-> cs,
     current_chunk |-> IF Len(cs) > 0 THEN cs[1].id ELSE None,
     metadata |-> [total_chunks |-> Len(cs), completed_chunks |-> 0,
                   overall_progress |-> 0]]

\* the variables of extract-deps.py that create-phases.py and
\* session-history.py leave alone
depsVars == <<argv, regFile, disk, chunks_data, chunk_id, chunk, fi, all_imports,
              file_imports, internal, external, cross_chunk_deps, avg_per_file,
              uncaught, textVars, runVars>>

DepsIdle ==
    /\ argv = None
    /\ regFile = BrokenRegistry("absent")
    /\ disk = <<>>
    /\ chunks_data = None
    /\ chunk_id = None
    /\ chunk = NoChunk
    /\ fi = 0
    /\ all_imports = <<>>
    /\ file_imports = <<>>
    /\ internal = <<>>
    /\ external = <<>>
    /\ cross_chunk_deps = {}
    /\ avg_per_file = NoAverage
    /\ uncaught = None
    /\ run = 1
    /\ prev_stdout = <<>>
    /\ source = NoSource
    /\ extracted = <<>>

historyVars == <<keep, history_file, backup_file, history>>

InitPhases ==
    /\ plan_phases \in detect_from_plan_file
    /\ dirs \in DirsMenuPhases
    /\ pc = "generate_chunks"
    /\ phases = <<>>
    /\ chunk_list = <<>>
    /\ result = None
    /\ stdout = <<>>
    /\ stderr = <<>>
    /\ exit_code = None
    /\ keep = <<>>
    /\ history_file = NoFile
    /\ backup_file = NoFile
    /\ history = <<>>
    /\ DepsIdle

\* lines 131-150: the plan file first, then the directories, then the default
Phases_Detect ==
    /\ pc = "generate_chunks"
    /\ phases' = IF Len(plan_phases) > 0 THEN plan_phases
                 ELSE IF Len(detect_from_directory_structure(dirs)) > 0
                 THEN detect_from_directory_structure(dirs)
                 ELSE DefaultPhases
    /\ pc' = "build_chunks"
    /\ UNCHANGED <<plan_phases, dirs, chunk_list, result, stdout, stderr, exit_code,
                   historyVars, depsVars>>

\* one iteration of the loop of lines 154-178
Phases_BuildChunk ==
    /\ pc = "build_chunks"
    /\ Len(chunk_list) < Len(phases)
    /\ LET i == Len(chunk_list) + 1
       IN chunk_list' = Append(chunk_list, BuildChunk(i, phases[i], phases))
    /\ UNCHANGED <<pc, plan_phases, dirs, phases, result, stdout, stderr, exit_code,
                   historyVars, depsVars>>

\* lines 180-194, and main() printing the registry and exiting with 0
Phases_Result ==
    /\ pc = "build_chunks"
    /\ Len(chunk_list) = Len(phases)
    /\ result' = PhaseRegistry(chunk_list)
    /\ stdout' = <<PhaseRegistry(chunk_list)>>
    /\ exit_code' = 0
    /\ pc' = "generated"
    /\ UNCHANGED <<plan_phases, dirs, phases, chunk_list, stderr, historyVars, depsVars>>

NextPhases == Phases_Detect \/ Phases_BuildChunk \/ Phases_Result

SpecPhases == InitPhases /\ [][NextPhases]_vars

-----------------------------------------------------------------------------
(* session-history.py: `clean [--keep N]` *)

MaxHistory == 3      \* entries of a short history
MaxKeep == 2         \* largest --keep value given
MaxExtra == 1        \* entries of the long history beyond the default keep
DefaultKeep == 30

\* a session-history file holding the JSON list data
HistoryFile(data) == [state |-> "ok", data |-> data]

\* a session-history file that is not JSON
CorruptFile == [state |-> "corrupt", data |-> <<>>]

\* load_history: the list in the file; [] when the file is absent or corrupt
load_history == IF history_file.state = "ok" THEN history_file.data ELSE <<>>

\* list[-n:]
LastSlice(list, n) ==
    IF n > 0 THEN SubSeq(list, Len(list) - Min(n, Len(list)) + 1, Len(list))
    ELSE SubSeq(list, Min(0 - n, Len(list)) + 1, Len(list))

\* the last n entries of a list, for 0 <= n: what list[-n:] is for n > 0
LastEntries(list, n) == SubSeq(list, Len(list) - Min(n, Len(list)) + 1, Len(list))

\* the keep argument main() passes to cmd_clean
KeepArgument == IF keep = <<>> THEN DefaultKeep ELSE keep[1]

\* sessions are numbered; a history may hold the same session twice
Histories ==
    SeqsUpTo(1..2, MaxHistory)
        \cup {[k \in 1..(DefaultKeep + e) |-> k] : e \in 1..MaxExtra}

InitClean ==
    /\ history_file \in {NoFile, CorruptFile} \cup {HistoryFile(h) : h \in Histories}
    /\ backup_file \in {NoFile, HistoryFile(<<2, 1>>)}
    /\ keep \in {<<>>} \cup {<<n>> : n \in -1..MaxKeep}
    /\ history = <<>>
    /\ pc = "load_history"
    /\ stdout = <<>>
    /\ stderr = <<>>
    /\ exit_code = None
    /\ dirs = {}
    /\ plan_phases = <<>>
    /\ phases = <<>>
    /\ chunk_list = <<>>
    /\ result = None
    /\ DepsIdle

phaseVars == <<plan_phases, phases, chunk_list, result, dirs>>

\* main(), line 254
Clean_Load ==
    /\ pc = "load_history"
    /\ history' = load_history
    /\ stderr' = IF history_file.state = "corrupt"
                 THEN <<"Error: Session history file is corrupted">>
                 ELSE stderr
    /\ pc' = "cmd_clean"
    /\ UNCHANGED <<keep, history_file, backup_file, stdout, exit_code, phaseVars, depsVars>>

\* save_history: the existing file is renamed to the backup, then written
save_history(cleaned) ==
    /\ backup_file' = IF history_file.state # "absent" THEN history_file
                      ELSE backup_file
    /\ history_file' = HistoryFile(cleaned)

\* cmd_clean(history, keep) and sys.exit of its return value
Clean_Run ==
    /\ pc = "cmd_clean"
    /\ IF Len(history) = 0
       THEN /\ stdout' = <<"No session history to clean.">>
            /\ UNCHANGED <<history_file, backup_file>>
       ELSE IF Len(history) <= KeepArgument
       THEN /\ stdout' = << <<"Nothing to clean.", Len(history)>> >>
            /\ UNCHANGED <<history_file, backup_file>>
       ELSE /\ save_history(LastSlice(history, KeepArgument))
            /\ stdout' = << <<"Removed", Len(history) - Len(LastSlice(history, KeepArgument)),
                              "Kept", Len(LastSlice(history, KeepArgument))>> >>
    /\ exit_code' = 0
    /\ pc' = "cleaned"
    /\ UNCHANGED <<keep, history, stderr, phaseVars, depsVars>>

NextClean == Clean_Load \/ Clean_Run

SpecClean == InitClean /\ [][NextClean]_vars

-----------------------------------------------------------------------------
(* Properties *)

\* the lines of out whose tag is t
Tagged(out, t) == {i \in 1..Len(out) : out[i][1] = t}

\* main() got as far as printing the stage named
Past(stages) == pc \in stages \/ (pc = "exited" /\ avg_per_file # NoAverage)

PrintedInternal == Past({"print_external", "cross", "per_file", "summary"})
PrintedExternal == Past({"cross", "per_file", "summary"})
ResolvedCross == Past({"per_file", "summary"})
SummaryPrinted == Tagged(stdout, "Summary:") # {}

\* the identifiers of the merged allow-list, as the source lists them
AllowListed == python_stdlib \cup rust_stdlib \cup go_stdlib \cup js_builtins

\* C1: categorize_imports partitions its input: the lengths of the internal
\* list, the external list and the number of standard-library occurrences add
\* up to the length of the input, every identifier's occurrences go to exactly
\* one of the three, and no identifier is in both lists.
C1_Partition ==
    pc = "categorized" =>
        /\ Len(internal) + Len(external)
             + Cardinality({i \in 1..Len(all_imports) : all_imports[i] \in AllowListed})
           = Len(all_imports)
        /\ Range(internal) \cap Range(external) = {}
        /\ \A x \in Range(all_imports) :
              \/ x \in AllowListed /\ Count(internal, x) = 0 /\ Count(external, x) = 0
              \/ x \notin AllowListed /\ Count(internal, x) = Count(all_imports, x)
                                     /\ Count(external, x) = 0
              \/ x \notin AllowListed /\ Count(external, x) = Count(all_imports, x)
                                     /\ Count(internal, x) = 0

\* C1 witness: a list with a standard-library, an internal and an external
\* identifier has been classified
C1_Witness ==
    /\ pc = "categorized"
    /\ \E x \in Range(all_imports) : x \in AllowListed
    /\ internal # <<>>
    /\ external # <<>>

\* C2: an identifier of the merged allow-list is in neither the internal nor
\* the external list, whether or not a same-named path exists in the project.
C2_StdlibDropped ==
    pc = "categorized" =>
        \A x \in AllowListed : x \notin Range(internal) /\ x \notin Range(external)

\* C2 witness: "os" and "utils" were classified in a tree that holds os.py
\* and utils.py, and only utils came out
C2_Witness ==
    /\ pc = "categorized"
    /\ "os" \in Range(all_imports)
    /\ Exists(RelPath("", "os", ".py"))
    /\ Exists(RelPath("", "utils", ".py"))
    /\ internal = <<"utils">>
    /\ external = <<>>

\* C3: extraction never aborts the run: no exception raised while a member
\* file is read ends the run.
C3_ExtractionNeverAborts ==
    uncaught \notin {"PermissionError", "IsADirectoryError", "UnicodeDecodeError",
                     "FileNotFoundError", "SyntaxError"}

\* the chunk id the run asks for
Requested ==
    IF argv # None THEN argv
    ELSE IF regFile.state = "ok" THEN regFile.data.current_chunk ELSE None

MissingInput ==
    \/ regFile.state = "absent"
    \/ /\ regFile.state = "ok"
       /\ \/ argv = None /\ regFile.data.current_chunk = None
          \/ \A i \in 1..Len(regFile.data.chunks) : regFile.data.chunks[i].id # Requested

\* C4: with the registry file absent, no chunk id given and none current, or
\* the requested id not in the registry, nothing is ever written to standard
\* output, and the run ends with exit code 1 and one 'Error:' line on the
\* error stream.
C4_MissingInputFatal ==
    MissingInput =>
        /\ stdout = <<>>
        /\ pc \in {"start", "load", "exited"}
        /\ pc = "exited" =>
              /\ exit_code = 1
              /\ Len(stderr) = 1
              /\ stderr[1][1] = "Error:"

\* C4 witness: a run for an id the non-empty registry does not hold has ended
C4_Witness ==
    /\ pc = "exited"
    /\ argv = "zz"
    /\ regFile.state = "ok"
    /\ Len(regFile.data.chunks) = MaxChunks
    /\ stderr = << <<"Error:", "Chunk not found", "zz">> >>

\* C5: a registry file that is not JSON ends the run with a non-zero exit
\* code, a single 'Error:' line on the error stream and no report.
C5_MalformedTerse ==
    (pc = "exited" /\ regFile.state = "malformed") =>
        /\ exit_code # 0
        /\ stdout = <<>>
        /\ Len(stderr) = 1
        /\ stderr[1][1] = "Error:"

\* C6: a second run over the same registry and tree prints the same lines in
\* the same order as the first.
C6_Deterministic ==
    (run = 2 /\ pc = "exited") => stdout = prev_stdout

\* the owner of a path: the first chunk in registry order that lists it
FirstOwnerIs(path, y) ==
    \E i \in 1..Len(chunks_data.chunks) :
        /\ chunks_data.chunks[i].id = y
        /\ path \in Range(chunks_data.chunks[i].files)
        /\ \A j \in 1..(i - 1) : path \notin Range(chunks_data.chunks[j].files)

CandidateFiles(n) ==
    {RelPath("", n, ".py"), RelPath("src", n, ".py"),
     RelPath("", n, ".rs"), RelPath("src", n, ".rs")}

RegistryIds == {chunks_data.chunks[i].id : i \in 1..Len(chunks_data.chunks)}

\* C7: once resolved, the cross-chunk set is exactly the set of ids Y other
\* than the analysed chunk such that a member file has a raw import with an
\* existing candidate file whose first owner in registry order is Y; it
\* holds only ids of the registry and never the analysed chunk's.
C7_CrossChunkSet ==
    ResolvedCross =>
        /\ cross_chunk_deps =
             {y \in RegistryIds :
                /\ y # chunk_id
                /\ \E i \in 1..Len(chunk.files) :
                     \E n \in Range(extract_file_imports(chunk.files[i]).imports) :
                       \E c \in CandidateFiles(n) : Exists(c) /\ FirstOwnerIs(c, y)}
        /\ chunk_id \notin cross_chunk_deps
        /\ cross_chunk_deps \subseteq RegistryIds

\* C7 witness: src/models.rs is listed by the second and the third chunk and
\* the first chunk, which imports models and utils, depends on the second only
C7_Witness ==
    /\ pc = "per_file"
    /\ chunk_id = "c1"
    /\ {"models", "utils"} \subseteq Range(all_imports)
    /\ Models_rs \in Range(chunks_data.chunks[2].files)
    /\ Models_rs \in Range(chunks_data.chunks[3].files)
    /\ cross_chunk_deps = {"c2"}

\* the line that follows the internal table's line for module m
AfterInternalItem(m) ==
    LET at == CHOOSE i \in 1..Len(stdout) : stdout[i][1] = "internal" /\ stdout[i][2] = m
    IN  stdout[at + 1]

\* C8: in the internal table, a module M whose file M.py at the project root
\* is a member file of a chunk other than the analysed one is annotated with
\* that chunk's name, and no other module is annotated.
C8_OwnerAnnotated ==
    PrintedInternal =>
        \A m \in Range(internal) :
            LET owner == ScanOwners(chunks_data.chunks, 1, RelPath("", m, ".py"))
            IN  IF Exists(RelPath("", m, ".py")) /\ owner # None /\ owner # chunk_id
                THEN AfterInternalItem(m) =
                        <<"    -> Chunk:", ScanChunks(chunks_data.chunks, 1, owner).name>>
                ELSE AfterInternalItem(m)[1] # "    -> Chunk:"

\* C9: the external table lists min(10, U) modules of the U distinct external
\* ones, never more than 10, and has an overflow line exactly when U > 10,
\* whose count is U - 10.
C9_ExternalTable ==
    PrintedExternal =>
        LET U == Cardinality(Range(external))
            listed == Cardinality(Tagged(stdout, "external"))
            more == Tagged(stdout, "external more")
        IN  /\ listed = Min(10, U)
            /\ listed <= 10
            /\ (more # {}) <=> (U > 10)
            /\ \A i \in more : stdout[i][2] = U - 10 /\ listed + stdout[i][2] = U

\* C9 witness: eleven distinct external modules, ten listed and one more
C9_Witness ==
    /\ pc = "cross"
    /\ Cardinality(Range(external)) = 11
    /\ Cardinality(Tagged(stdout, "external")) = 10
    /\ \E i \in Tagged(stdout, "external more") : stdout[i][2] = 1

\* the raw imports extracted from the member files of the analysed chunk
RECURSIVE TotalImports(_)
TotalImports(files) ==
    IF files = <<>> THEN 0
    ELSE Len(extract_file_imports(Head(files)).imports) + TotalImports(Tail(files))

\* C10 as stated: the summary's average is total_imports / files and is 0
\* exactly when the chunk has no files; a successful run on a chunk with no
\* files prints a summary with average 0.
C10_AsStated ==
    /\ SummaryPrinted =>
          /\ avg_per_file[1] * Len(chunk.files) = TotalImports(chunk.files) * avg_per_file[2]
          /\ (avg_per_file[1] = 0) <=> (chunk.files = <<>>)
    /\ (pc = "exited" /\ exit_code = 0 /\ chunk.files = <<>>) =>
          /\ SummaryPrinted
          /\ avg_per_file = <<0, 1>>

\* C10 amended: whenever the summary is printed the chunk has at least one
\* member file and one import and the average is total_imports / files, which
\* is positive; a run on a chunk with no files ends with exit code 0 after
\* "No imports found" and prints no summary, so no average is reported.
C10_Average ==
    /\ SummaryPrinted =>
          /\ Len(chunk.files) > 0
          /\ TotalImports(chunk.files) > 0
          /\ avg_per_file[2] > 0
          /\ avg_per_file[1] * Len(chunk.files) = TotalImports(chunk.files) * avg_per_file[2]
          /\ avg_per_file[1] > 0
    /\ (pc = "exited" /\ exit_code = 0 /\ chunk.files = <<>>) =>
          /\ ~SummaryPrinted
          /\ avg_per_file = NoAverage
          /\ stdout[Len(stdout)] = <<"No imports found in chunk files.">>

\* C10 witness: a summary for two member files and one import
C10_Witness ==
    /\ SummaryPrinted
    /\ Len(chunk.files) = 2
    /\ Len(all_imports) = 1
    /\ Len(file_imports) = 1
    /\ avg_per_file = <<1, 2>>

\* no member file of the analysed chunk contributes a raw import
NoRawImports ==
    \A i \in 1..Len(chunk.files) : extract_file_imports(chunk.files[i]).imports = <<>>

\* C11: a run for a chunk of the registry whose member files yield no raw
\* import at all (an empty file list included) ends as a success: its last
\* output line reports that no imports were found, nothing is written to the
\* error stream and the exit code is 0.
C11_NoImportsSuccess ==
    (pc = "exited" /\ chunk # NoChunk /\ NoRawImports) =>
        /\ exit_code = 0
        /\ stderr = <<>>
        /\ stdout # <<>>
        /\ stdout[Len(stdout)] = <<"No imports found in chunk files.">>

\* what the statements of the file given to the extractor declare
RECURSIVE Declarations(_)
Declarations(units) ==
    IF units = <<>> THEN <<>> ELSE Head(units).declares \o Declarations(Tail(units))

\* the first segments of the non-empty paths the file declares with a kind
\* among kinds, for the separator sep
Declared(kinds, sep) ==
    LET decls == Declarations(source.units)
    IN  {Join(Split(decls[i].path, sep)[1]) :
            i \in {i \in 1..Len(decls) : decls[i].kind \in kinds /\ decls[i].path # <<>>}}

ReturnedFor(suffixes) == pc = "returned" /\ source.suffix \in suffixes

\* C12: a Python relative import contributes no raw identifier: a module X
\* that a file names only in `from .X import ...` statements is not among the
\* identifiers extracted from it, whether the file parses or not; and the
\* file made of `import os`, `import requests`, `from .utils import helper`
\* classifies, in an empty project tree, to no internal module and to the
\* external module requests, once.
C12_RelativeImportSkipped ==
    ReturnedFor({".py"}) =>
        /\ \A X \in Declared({"relative"}, <<".">>) \ Declared({"absolute"}, <<".">>) :
              X \notin Range(extracted)
        /\ Declarations(source.units) = <<Decl("absolute", <<"os">>),
                                           Decl("absolute", <<"requests">>),
                                           Decl("relative", <<"utils">>)>>
           => categorize_imports(extracted, Cwd) = << <<>>, <<"requests">> >>

\* the number of paths the file declares whose last token is x
DeclaredEnding(x) ==
    LET decls == Declarations(source.units)
    IN  Cardinality({i \in 1..Len(decls) : decls[i].path[Len(decls[i].path)] = x})

\* C13: from a Go file, every quoted import path, on a single `import` line
\* or inside any parenthesised import block however its entries are laid
\* out, yields exactly one identifier, the segment after its last '/': each
\* identifier is extracted as many times as the file declares a path that
\* ends in it (so `import "fmt"` and a block of "encoding/json" and
\* "github.com/foo/bar" yield exactly fmt, json and bar).
C13_GoEveryQuotedPath ==
    ReturnedFor({".go"}) =>
        /\ Len(extracted) = Len(Declarations(source.units))
        /\ \A x \in Range(extracted) : Count(extracted, x) = DeclaredEnding(x)

\* what the claim of C14 has the lines of a file yield, in order
RECURSIVE JsExpected(_)
JsExpected(units) ==
    IF units = <<>> THEN <<>>
    ELSE LET d == Head(units).declares
         IN  (IF d # <<>> /\ d[1].path[1] # "."
              THEN <<Join(Split(d[1].path, <<"/">>)[1])>>
              ELSE <<>>)
             \o JsExpected(Tail(units))

\* C14: from a JavaScript or TypeScript file, every line that holds
\* `import ... from '<path>'` or `require('<path>')` (a call on the
\* right-hand side of an assignment included) yields nothing when the path
\* starts with '.', and otherwise exactly one identifier, the part of the
\* path before its first '/'; no other line yields anything.
C14_JsEveryImportLine ==
    ReturnedFor({".js", ".jsx", ".ts", ".tsx"}) =>
        extracted = JsExpected(source.units)

\* what the claim of C15 has the lines of a file yield, in order
RECURSIVE RustExpected(_)
RustExpected(units) ==
    IF units = <<>> THEN <<>>
    ELSE LET d == Head(units).declares
         IN  (IF d # <<>> /\ d[1].kind \in {"crate", "super", "self"}
              THEN <<d[1].path[1]>>
              ELSE <<>>)
             \o RustExpected(Tail(units))

\* C15: from a Rust file, a `use` statement scoped by crate::, super:: or
\* self:: yields exactly one identifier, the first path segment after the
\* scope, which is a non-empty run of letters, digits and underscores (also
\* for a grouped form such as `use crate::{a, b}`); every other `use`
\* statement and every other line yields none.
C15_RustScopedUse ==
    ReturnedFor({".rs"}) =>
        /\ extracted = RustExpected(source.units)
        /\ \A i \in 1..Len(extracted) : extracted[i] \notin NonWord \cup {""}

\* a file or a directory of the project tree has this relative path
InTree(dir, stem, ext) ==
    RelPath(dir, stem, ext) \in dirs \cup {q \in DOMAIN disk : disk[q].kind # "missing"}

\* C16: an identifier n outside the allow-list is internal exactly when one
\* of <root>/n, <root>/n.py, <root>/src/n, <root>/lib/n exists, and external
\* otherwise, in every project tree; no other path of the tree matters.
C16_InternalIffCandidate ==
    pc = "categorized" =>
        \A n \in Range(all_imports) \ AllowListed :
            LET found == \/ InTree("", n, "")
                         \/ InTree("", n, ".py")
                         \/ InTree("src", n, "")
                         \/ InTree("lib", n, "")
            IN  /\ n \in Range(internal) <=> found
                /\ n \in Range(external) <=> ~found

\* C16 witness: utils and requests are classified in the tree whose only
\* entry is the directory lib/utils: utils comes out internal, requests
\* external
C16_Witness ==
    /\ pc = "categorized"
    /\ InTree("lib", "utils", "")
    /\ ~InTree("", "utils", "") /\ ~InTree("", "utils", ".py") /\ ~InTree("src", "utils", "")
    /\ "utils" \in Range(internal)
    /\ "requests" \in Range(external)

\* the chunk's import sequence: member files in registry order, the imports
\* of each in extraction order
RECURSIVE ImportSequence(_)
ImportSequence(files) ==
    IF files = <<>> THEN <<>>
    ELSE extract_file_imports(Head(files)).imports \o ImportSequence(Tail(files))

\* the index of the first occurrence of x in s
FirstAt(s, x) == CHOOSE i \in 1..Len(s) : s[i] = x /\ \A j \in 1..(i - 1) : s[j] # x

\* module a with count m comes before module b with count n in a table
RanksBefore(s, a, m, b, n) == m > n \/ (m = n /\ FirstAt(s, a) < FirstAt(s, b))

\* C17: the internal table and the external table (the latter also when cut
\* to its top 10) list their modules with the number of occurrences of each,
\* by non-increasing count, and modules of equal count in the order of their
\* first occurrence in the chunk's import sequence; an external module left
\* out of the cut table ranks after every listed one.
C17_TableOrder ==
    PrintedExternal =>
        LET seq == ImportSequence(chunk.files)
        IN  /\ \A tag \in {"internal", "external"} :
                  /\ \A i \in Tagged(stdout, tag) : stdout[i][3] = Count(seq, stdout[i][2])
                  /\ \A i, j \in Tagged(stdout, tag) :
                        i < j => RanksBefore(seq, stdout[i][2], stdout[i][3],
                                                  stdout[j][2], stdout[j][3])
            /\ \A x \in Range(external) \ {stdout[i][2] : i \in Tagged(stdout, "external")} :
                  \A i \in Tagged(stdout, "external") :
                      RanksBefore(seq, stdout[i][2], stdout[i][3], x, Count(seq, x))

\* C17 witness: eleven external modules, the first one imported once and the
\* last one twice; the cut table starts with the last, then the first, and
\* leaves out a module imported once
C17_Witness ==
    /\ pc = "cross"
    /\ all_imports = <<"models">> \o ExtNames(10) \o <<ExtName(10)>>
    /\ LET rows == Tagged(stdout, "external")
           top == CHOOSE i \in rows : \A j \in rows : i <= j
       IN  /\ Cardinality(rows) = 10
           /\ stdout[top] = <<"external", ExtName(10), 2>>
           /\ stdout[top + 1] = <<"external", "models", 1>>
           /\ ExtName(9) \notin {stdout[i][2] : i \in rows}

\* the member files of the analysed chunk whose extraction returned an import
FilesWithImports ==
    {f \in Range(chunk.files) : extract_file_imports(f).imports # <<>>}

\* C18: the per-file breakdown has one entry for each member file whose
\* extraction returned at least one import and for no other file (a member
\* file that is missing, has an unknown extension or holds no import is not
\* in it); the numerator of 'Files with imports' is the number of entries,
\* its denominator the number of member files, and the first is at most the
\* second.
C18_FilesWithImports ==
    /\ Past({"summary"}) =>
          /\ {stdout[i][2] : i \in Tagged(stdout, "file")} = {BaseName(f) : f \in FilesWithImports}
          /\ Cardinality(Tagged(stdout, "file")) = Cardinality(FilesWithImports)
    /\ SummaryPrinted =>
          \A i \in Tagged(stdout, "  Files with imports:") :
              /\ stdout[i][2] = Cardinality(Tagged(stdout, "file"))
              /\ stdout[i][3] = Len(chunk.files)
              /\ stdout[i][2] <= stdout[i][3]

\* C18 witness: a summary for the chunk of b.rs, which is missing, and a.py,
\* which has imports: one breakdown entry, for a.py, and 1/2 files
C18_Witness ==
    /\ SummaryPrinted
    /\ chunk.files = <<B_rs, A_py>>
    /\ FileAt(B_rs).kind = "missing"
    /\ {stdout[i][2] : i \in Tagged(stdout, "file")} = {"a.py"}
    /\ \E i \in Tagged(stdout, "  Files with imports:") : stdout[i][2] = 1 /\ stdout[i][3] = 2

\* the imports listed under the breakdown header at line i of the output
ShownUnder(i) ==
    {j \in (i + 1)..Len(stdout) : \A k \in (i + 1)..j : stdout[k][1] = "    -"}

\* the count of the remainder line under the header at line i, 0 without one
RemainderUnder(i) ==
    LET next == stdout[i + Cardinality(ShownUnder(i)) + 1]
    IN  IF next[1] = "file more" THEN next[2] ELSE 0

\* C19: under every header of the per-file breakdown at most 5 imports are
\* listed, a remainder line follows exactly when the file has more than 5
\* imports to show, and the imports listed plus the remainder count equal
\* the number of imports the header reports for the file.
C19_PerFileCap ==
    Past({"summary"}) =>
        \A i \in Tagged(stdout, "file") :
            /\ Cardinality(ShownUnder(i)) <= 5
            /\ RemainderUnder(i) > 0 <=> stdout[i][3] > 5
            /\ Cardinality(ShownUnder(i)) + RemainderUnder(i) = stdout[i][3]

\* C20: a run works on one snapshot of the registry: when no chunk id is
\* given, the registry contents the chunk is looked up in are the contents
\* the chunk id was taken from, so they name that id as their current chunk;
\* in particular a run that ends with 'Chunk not found' for its chunk id was
\* looking in contents whose own current chunk is that id, whatever happens
\* to the registry file during the run.
C20_SingleSnapshot ==
    (argv = None /\ chunk_id # None) =>
        /\ chunks_data.current_chunk = chunk_id
        /\ (pc = "exited" /\ stderr = << <<"Error:", "Chunk not found", chunk_id>> >>)
              => get_chunk(chunks_data, chunks_data.current_chunk) = NoChunk

\* the raw import n of the analysed chunk adds chunk y to the cross-chunk set
CausesEdge(n, y) ==
    /\ y # chunk_id
    /\ \E c \in CandidateFiles(n) : Exists(c) /\ FirstOwnerIs(c, y)

C22_RegistryWellFormed ==
    pc = "generated" =>
        /\ \A i, j \in 1..Len(result.chunks) :
              result.chunks[i].id = result.chunks[j].id => i = j
        /\ \A i \in 1..Len(result.chunks) :
              \A d \in Range(result.chunks[i].dependencies) :
                  \E j \in 1..(i - 1) : result.chunks[j].id = d
        /\ IF Len(result.chunks) = 0 THEN result.current_chunk = None
           ELSE result.current_chunk = result.chunks[1].id

\* a registry built from phases two of which have the same name, the later
\* chunks each declaring a dependency
C22_Witness ==
    /\ pc = "generated"
    /\ \E i, j \in 1..Len(result.chunks) :
          i < j /\ result.chunks[i].name = result.chunks[j].name
    /\ \A i \in 2..Len(result.chunks) : Len(result.chunks[i].dependencies) = 1

\* C23: pruning keeps only the most recent N: for a keep value N >= 0,
\* cmd_clean on a history of more than N entries saves exactly the last N
\* entries in their order and leaves the previous file content as the backup
\* file; on a history of N or fewer entries it writes neither file.
C23_CleanKeepsLastN ==
    [][(pc = "cmd_clean" /\ KeepArgument >= 0) =>
          IF Len(history) > KeepArgument
          THEN /\ history_file' = HistoryFile(LastEntries(history, KeepArgument))
               /\ backup_file' = history_file
          ELSE UNCHANGED <<history_file, backup_file>>]_vars

====
